---- MODULE Spec2Model ----
(***************************************************************************)
(* A state-machine model of the mail ingestion service of                  *)
(* reachinbox-email-aggregator: ImapSyncService (start, initializeConnection, *)
(* syncEmails, processEmailMessage, setupIdleMode, stop), the              *)
(* categorization gateway (categorizeEmail), the store operations          *)
(* (indexEmail, updateEmailCategory) and the category-update route.        *)
(* The HTTP side: the health route, batch categorization and reply         *)
(* suggestion of the AI routes, served once start() has resolved.          *)
(*                                                                         *)
(* Strings are sequences of tokens: a token is a word ("a@x", "Spam"), a   *)
(* comma or a blank, so that split(',') and trim() are computed.           *)
(* Time is counted in minutes; a calendar date is the day number of a      *)
(* time (the service and the mail server are taken to use one time zone).  *)
(***************************************************************************)
EXTENDS Integers, Sequences, FiniteSets, TLC

\* ------------------------------------------------------------------ bounds
\* how many minutes the clock may advance after Init
MaxElapsed == 1
\* how many 'error' events one session may emit
MaxErrors == 1
\* how many times stop() may be called
MaxStops == 1
\* how many category-update requests the route may receive
MaxRequests == 1
\* calls of the batch webhook
MaxBatchCalls == 1
\* how many messages may arrive after Init
MaxArrivals == 1
\* how many minutes may pass while a tick waits for its openBox
MaxLatency == 1
\* the longest list of different emails a batch request carries
MaxBatchLen == 2

\* ------------------------------------------------------- program constants
BackfillDays == 30
TickWindowMinutes == 1
PollIntervalMs == 60000
MsPerMinute == 60 * 1000
MinutesPerDay == 24 * 60
PollIntervalMinutes == PollIntervalMs \div MsPerMinute
BatchMin == 1
BatchLimit == 50
BatchDelayMs == 100

\* ------------------------------------------------------------------ strings
Comma == ","
Blank == " "

RECURSIVE SplitAcc(_, _, _)
SplitAcc(s, cur, acc) ==
    IF s = <<>> THEN Append(acc, cur)
    ELSE IF Head(s) = Comma THEN SplitAcc(Tail(s), <<>>, Append(acc, cur))
    ELSE SplitAcc(Tail(s), Append(cur, Head(s)), acc)

\* String.prototype.split(','): "" gives [""], "a,b" gives ["a","b"]
Split(s) == SplitAcc(s, <<>>, <<>>)

RECURSIVE TrimLeft(_)
TrimLeft(s) == IF s # <<>> /\ Head(s) = Blank THEN TrimLeft(Tail(s)) ELSE s

RECURSIVE TrimRight(_)
TrimRight(s) ==
    IF s # <<>> /\ s[Len(s)] = Blank THEN TrimRight(SubSeq(s, 1, Len(s) - 1)) ELSE s

\* String.prototype.trim()
Trim(s) == TrimRight(TrimLeft(s))

\* a value that may be missing (an environment variable, a request field):
\* undefined, or a string
Undefined == [set |-> FALSE, val |-> <<>>]
Str(s) == [set |-> TRUE, val |-> s]

\* process.env.X?.split(',') || []
EnvList(e) == IF e.set THEN Split(e.val) ELSE <<>>

\* ---------------------------------------------------------------- categories
Interested == <<"Interested">>
MeetingBooked == <<"Meeting", Blank, "Booked">>
NotInterested == <<"Not", Blank, "Interested">>
Spam == <<"Spam">>
OutOfOffice == <<"Out", Blank, "of", Blank, "Office">>

\* this.categories
categories == {Interested, MeetingBooked, NotInterested, Spam, OutOfOffice}

\* the category field of a stored document that has none
NoCategory == <<>>

\* ---------------------------------------------------------------- calendar
\* moment().format('DD-MMM-YYYY'): the calendar date of a time, its time of
\* day dropped
FormatDate(t) == t \div MinutesPerDay

\* IMAP SEARCH SINCE <date>: messages whose internal date, disregarding the
\* time of day, is on or after the date
MatchesSince(msgDate, sinceDay) == FormatDate(msgDate) >= sinceDay

\* ------------------------------------------------------------------- state
VARIABLES
    envAccounts,    \* process.env.EMAIL_ACCOUNTS
    envPasswords,   \* process.env.EMAIL_PASSWORDS
    apiKey,         \* process.env.OPENAI_API_KEY is set
    slackUrl,       \* SlackService.webhookUrl is set
    webhookUrl,     \* WebhookService.webhookUrl is set
    classifier,     \* the answers the external classifier may give
    now,            \* the clock, in minutes
    mailbox,        \* the servers' INBOXes: records [uid, owner, date]
    isRunning,      \* ImapSyncService.isRunning
    connections,    \* ImapSyncService.connections: records [email, sess]
    startPc,        \* start(): "idle", "loop", "resolved", "rejected"
    startI,         \* the account start() is awaiting (0: none)
    startErr,       \* what start() rejected with
    micro,          \* the microtask queue: promise continuations to run next
    sess,           \* the Imap objects, one per initializeConnection call
    batch,          \* batch[i][k]: the initial sync (k = 0) and the k-th tick
    timer,          \* the setInterval of setupIdleMode, per session
    tasks,          \* processEmailMessage calls in progress
    store,          \* the search index: documents [id, category], one per id
    crashed,        \* an uncaught exception ended the process
    stopCalls,      \* how many times stop() was called
    requests,       \* how many category-update requests were received
    elapsed,        \* minutes the clock advanced since Init
    hist,           \* observations: what was processed, sent, seen
    api             \* the HTTP routes: the batch categorization in progress,
                    \* the replies suggested, the health responses sent

config == <<envAccounts, envPasswords, apiKey, slackUrl, webhookUrl, classifier>>
vars == <<envAccounts, envPasswords, apiKey, slackUrl, webhookUrl, classifier, now, mailbox,
          isRunning, connections, startPc, startI, startErr, micro, sess, batch,
          timer, tasks, store, crashed, stopCalls, requests, elapsed, hist, api>>

\* emailAccounts, emailPasswords of start()
emailAccounts == EnvList(envAccounts)
emailPasswords == EnvList(envPasswords)
Sessions == 1 .. Len(emailAccounts)
Batches == 0 .. MaxElapsed + MaxLatency

\* emailAccounts[i].trim()
Email(i) == Trim(emailAccounts[i])

Uids == {m.uid : m \in mailbox}
DateOf(u) == (CHOOSE m \in mailbox : m.uid = u).date

\* the attributes of a fetched message, as name/value pairs: `let attributes
\* = {}` until the 'attributes' event replaces it with the server's, which
\* carry the UID
NoAttributes == {}
Attributes(u) == {<<"uid", u>>}

\* attributes.uid inside a template string: the digits of the number, or
\* "undefined" when the object has no such property
UidText(attributes) ==
    IF \E a \in attributes : a[1] = "uid"
    THEN ToString((CHOOSE a \in attributes : a[1] = "uid")[2])
    ELSE "undefined"

\* emailData.id: `${email}_${attributes.uid}`
EmailId(email, attributes) == email \o <<"_", UidText(attributes)>>

\* crashed: no, or the exception nothing caught
NotCrashed == "no"

NoError == [kind |-> "none", i |-> 0]
ConfigError(msg) == [kind |-> msg, i |-> 0]
AccountError(i) == [kind |-> "account", i |-> i]

NoSession ==
    [state |-> "none", readyL |-> FALSE, errorL |-> FALSE, endL |-> FALSE,
     promise |-> "none", errors |-> 0, endCalled |-> FALSE, ended |-> FALSE,
     openedAt |-> 0]

NoBatch ==
    [pc |-> "none", since |-> 0, at |-> 0, results |-> {}, undelivered |-> {},
     processedCount |-> 0, promise |-> "none", afterStop |-> FALSE,
     searched |-> FALSE]

NoTimer == [active |-> FALSE, nextFire |-> 0, fired |-> 0]

NoHist ==
    [processed |-> {},     \* <<session, batch, uid>> run through the pipeline
     slack |-> {},         \* <<session, batch, uid>> chat sink calls
     webhook |-> {},       \* <<session, batch, uid>> webhook sink calls
     emitted |-> {},       \* new-email events published: [key, id, category]
     skipped |-> {},       \* [key, stage]: the await whose error the catch took
     sinks |-> {},         \* sink calls that returned: [sink, key, requested,
                           \* response, result]
     fetchFailed |-> {},   \* <<session, batch>> whose fetch emitted 'error'
     arrived |-> {},       \* the UIDs of the messages that arrived after Init
     stopOpen |-> {},      \* sessions open when stop() was called
     errorAfterStart |-> {}]  \* sessions with an error event after start() ended

\* the HTTP routes before any request
NoApi ==
    [pc |-> "idle",       \* the batch categorization: "idle", "categorize",
                          \* "delay", "done"
     emails |-> <<>>,     \* the list of the batch request
     results |-> <<>>,    \* batchCategorizeEmails: results
     log |-> <<>>,        \* classifier calls, their returns, and elapsed delays
     code |-> 0,          \* the status code of the batch request's response
     replies |-> {},      \* generateSuggestedReply calls and what they returned
     health |-> {},       \* the responses to GET /health
     text |-> <<>>,       \* the text given to generateSimpleEmbedding
     embedded |-> {},     \* generateSimpleEmbedding calls and what they returned
     qdrant |-> TRUE,     \* QdrantService.isInitialized
     vectors |-> {},      \* the points stored in the vector database
     queries |-> {},      \* searchSimilarContent calls: the query vectors
     app |-> "ingest",    \* ReachinboxApp.start(): "new", "store", "ai",
                          \* "ingest" (imapSyncService.start() is called),
                          \* "exited"
     storeInit |-> "ok"]  \* elasticsearchService.initialize(): "none", "ok",
                          \* "failed"

\* the state after construction; urls: the pairs <<SLACK_WEBHOOK_URL is set,
\* WEBHOOK_URL is set>>
InitCore(accts, pwds, keys, urls, answers, times, boxes) ==
    /\ envAccounts \in accts
    /\ envPasswords \in pwds
    /\ apiKey \in keys
    /\ \E u \in urls : slackUrl = u[1] /\ webhookUrl = u[2]
    /\ classifier = answers
    /\ now \in times
    /\ mailbox \in boxes
    /\ isRunning = FALSE
    /\ connections = {}
    /\ startPc = "idle"
    /\ startI = 0
    /\ startErr = NoError
    /\ micro = <<>>
    /\ sess = [i \in Sessions |-> NoSession]
    /\ batch = [i \in Sessions |-> [k \in Batches |-> NoBatch]]
    /\ timer = [i \in Sessions |-> NoTimer]
    /\ tasks = {}
    /\ store = {}
    /\ crashed = NotCrashed
    /\ stopCalls = 0
    /\ requests = 0
    /\ elapsed = 0
    /\ hist = NoHist

\* the state once the application has initialized its store and its vector
\* database and is about to call imapSyncService.start()
InitState(accts, pwds, keys, urls, answers, times, boxes) ==
    /\ InitCore(accts, pwds, keys, urls, answers, times, boxes)
    /\ api = NoApi

\* the state after construction with both sink URLs configured
InitWith(accts, pwds, keys, answers, times, boxes) ==
    InitState(accts, pwds, keys, {<<TRUE, TRUE>>}, answers, times, boxes)

\* the event loop takes a new event only when no promise continuation is
\* pending and the process is alive
Alive == crashed = NotCrashed
Idle == micro = <<>> /\ Alive

\* ------------------------------------------------------------ promise plumbing
\* the continuation a settled promise schedules, appended to the queue q
Then(q, kind, i) == Append(q, [k |-> kind, i |-> i])

\* resolve()/reject() of initializeConnection's promise: only the first call
\* settles it, and start(), which awaits it, continues in a microtask
InitSettled(s, outcome) == IF s.promise = "pending" THEN outcome ELSE s.promise
InitQueue(q, s, i, outcome) ==
    IF s.promise = "pending"
    THEN Then(q, IF outcome = "resolved" THEN "startCont" ELSE "startCatch", i)
    ELSE q

\* resolve()/reject() of syncEmails's promise, awaited by the ready handler
SyncSettled(b, outcome) == IF b.promise = "pending" THEN outcome ELSE b.promise
SyncQueue(q, b, i, outcome) ==
    IF b.promise = "pending"
    THEN Then(q, IF outcome = "resolved" THEN "readyCont" ELSE "readyCatch", i)
    ELSE q

\* new Imap(...), the three once() listeners and imap.connect()
NewConnection ==
    [state |-> "connecting", readyL |-> TRUE, errorL |-> TRUE, endL |-> TRUE,
     promise |-> "pending", errors |-> 0, endCalled |-> FALSE, ended |-> FALSE,
     openedAt |-> now]

\* ------------------------------------------------------------------ start()
\* the two configuration checks of start()
ConfigCheck ==
    IF Len(emailAccounts) = 0 THEN ConfigError("No email accounts configured")
    ELSE IF Len(emailAccounts) # Len(emailPasswords)
         THEN ConfigError("Email accounts and passwords count mismatch")
         ELSE NoError

\* start() up to its first await: the checks, then initializeConnection of
\* the first account
Start ==
    /\ Idle
    /\ api.app = "ingest"
    /\ startPc = "idle"
    /\ IF ConfigCheck # NoError
       THEN /\ startPc' = "rejected"
            /\ startErr' = ConfigCheck
            /\ UNCHANGED <<startI, sess>>
       ELSE /\ startPc' = "loop"
            /\ startI' = 1
            /\ sess' = [sess EXCEPT ![1] = NewConnection]
            /\ UNCHANGED startErr
    /\ UNCHANGED <<config, now, mailbox, isRunning, connections, micro, batch,
                   timer, tasks, store, crashed, stopCalls, requests, api, elapsed, hist>>

\* a start() that stops after the first account
StartNextFirstOnly(i) ==
    /\ isRunning' = TRUE
    /\ startPc' = "resolved"
    /\ startI' = 0
    /\ UNCHANGED sess

\* what start() does once account i's initializeConnection has resolved: the
\* next iteration of the loop, or the end of the loop
StartNext(i) ==
    IF i < Len(emailAccounts)
    THEN /\ sess' = [sess EXCEPT ![i + 1] = NewConnection]
         /\ startI' = i + 1
         /\ UNCHANGED <<startPc, isRunning>>
    ELSE /\ isRunning' = TRUE
         /\ startPc' = "resolved"
         /\ startI' = 0
         /\ UNCHANGED sess

\* start() resumes after `await this.initializeConnection(email, password)`
StartCont(i) ==
    /\ Alive
    /\ micro # <<>>
    /\ Head(micro) = [k |-> "startCont", i |-> i]
    /\ micro' = Tail(micro)
    /\ StartNext(i)
    /\ UNCHANGED <<config, now, mailbox, connections, startErr, batch, timer,
                   tasks, store, crashed, stopCalls, requests, api, elapsed, hist>>

\* the catch block of start(): log and rethrow
StartCatch(i) ==
    /\ Alive
    /\ micro # <<>>
    /\ Head(micro) = [k |-> "startCatch", i |-> i]
    /\ micro' = Tail(micro)
    /\ startPc' = "rejected"
    /\ startErr' = AccountError(i)
    /\ startI' = 0
    /\ UNCHANGED <<config, now, mailbox, isRunning, connections, sess, batch,
                   timer, tasks, store, crashed, stopCalls, requests, api, elapsed, hist>>

\* -------------------------------------------------------- session events
\* Map.prototype.set / delete on this.connections
MapSet(m, email, i) == {c \in m : c.email # email} \cup {[email |-> email, sess |-> i]}
MapDelete(m, email) == {c \in m : c.email # email}
MapHas(m, email) == \E c \in m : c.email = email

\* the 'ready' handler up to its await: register the session, call syncEmails,
\* which calls imap.openBox
OnReady(i) ==
    /\ connections' = MapSet(connections, Email(i), i)
    /\ batch' = [batch EXCEPT ![i][0] = [NoBatch EXCEPT !.pc = "openBox",
                                                         !.promise = "pending"]]

Ready(i) ==
    /\ Idle
    /\ sess[i].state = "connecting"
    /\ sess' = [sess EXCEPT ![i].state = "authenticated", ![i].readyL = FALSE]
    /\ OnReady(i)
    /\ UNCHANGED <<config, now, mailbox, isRunning, startPc, startI, startErr,
                   micro, timer, tasks, store, crashed, stopCalls, requests, api,
                   elapsed, hist>>

\* the 'error' handler: log and reject; the registry is left as it is
OnError(i) ==
    /\ micro' = InitQueue(micro, sess[i], i, "rejected")
    /\ UNCHANGED connections

\* the session emits 'error': the transport is gone. The listener was
\* registered with once(): a later 'error' finds none, and an 'error' event
\* without a listener is thrown by the emitter, uncaught.
ErrorEvent(i) ==
    /\ Idle
    /\ sess[i].state # "none"
    /\ ~sess[i].ended
    /\ sess[i].errors < MaxErrors
    /\ IF sess[i].errorL
       THEN /\ OnError(i)
            /\ UNCHANGED crashed
       ELSE /\ crashed' = "unhandled error event"
            /\ UNCHANGED <<micro, connections>>
    /\ sess' = [sess EXCEPT ![i].errors = @ + 1,
                            ![i].errorL = FALSE,
                            ![i].promise = IF sess[i].errorL
                                           THEN InitSettled(sess[i], "rejected")
                                           ELSE @,
                            ![i].state = "disconnected"]
    /\ hist' = [hist EXCEPT !.errorAfterStart =
                    IF startPc \in {"resolved", "rejected"}
                    THEN @ \cup {i} ELSE @]
    /\ UNCHANGED <<config, now, mailbox, isRunning, startPc, startI, startErr,
                   batch, timer, tasks, store, stopCalls, requests, api, elapsed>>

\* the 'end' handler: log and remove the address from the registry
OnEnd(i) == connections' = MapDelete(connections, Email(i))

\* an 'end' handler that connects again
EndEventReconnect(i) ==
    /\ Idle
    /\ sess[i].state # "none"
    /\ ~sess[i].ended
    /\ IF sess[i].endL THEN OnEnd(i) ELSE UNCHANGED connections
    /\ sess' = [sess EXCEPT ![i].state = IF sess[i].state = "disconnected"
                                         THEN "connecting" ELSE "disconnected",
                            ![i].ended = sess[i].state # "disconnected",
                            ![i].endL = FALSE]
    /\ UNCHANGED <<config, now, mailbox, isRunning, startPc, startI, startErr,
                   micro, batch, timer, tasks, store, crashed, stopCalls,
                   requests, api, elapsed, hist>>

\* the session emits 'end': the server closed the connection, on its own or
\* after connection.end()
EndEvent(i) ==
    /\ Idle
    /\ sess[i].state # "none"
    /\ ~sess[i].ended
    /\ IF sess[i].endL THEN OnEnd(i) ELSE UNCHANGED connections
    /\ sess' = [sess EXCEPT ![i].state = "disconnected", ![i].ended = TRUE,
                            ![i].endL = FALSE]
    /\ UNCHANGED <<config, now, mailbox, isRunning, startPc, startI, startErr,
                   micro, batch, timer, tasks, store, crashed, stopCalls,
                   requests, api, elapsed, hist>>

\* ------------------------------------------------------------------- stop()
\* stop(): clear the flag, call end() on every registered session, clear the
\* registry, return
Stop ==
    /\ Idle
    /\ startPc # "idle"
    /\ stopCalls < MaxStops
    /\ stopCalls' = stopCalls + 1
    /\ isRunning' = FALSE
    /\ sess' = [i \in Sessions |->
                  IF \E c \in connections : c.sess = i
                  THEN [sess[i] EXCEPT !.endCalled = TRUE] ELSE sess[i]]
    /\ connections' = {}
    /\ hist' = [hist EXCEPT !.stopOpen =
                    @ \cup {i \in Sessions : sess[i].state \in {"connecting", "authenticated"}}]
    /\ UNCHANGED <<config, now, mailbox, startPc, startI, startErr, micro, batch,
                   timer, tasks, store, crashed, requests, api, elapsed>>

\* a classifier outcome: the call throws, or answers with some content
Throws == [ok |-> FALSE, content |-> <<>>]
\* no call was made
NoOutcome == [ok |-> FALSE, content |-> <<"no call">>]
Answer(c) == [ok |-> TRUE, content |-> c]

\* ------------------------------------------------------------ sync batches
\* a window of 30 minutes instead of 30 days
BackfillSinceMinutes(t) == FormatDate(t - BackfillDays)

\* moment().subtract(30, 'days').format('DD-MMM-YYYY')
BackfillSince(t) == FormatDate(t - BackfillDays * MinutesPerDay)

\* moment().subtract(1, 'minute').format('DD-MMM-YYYY')
TickSince(t) == FormatDate(t - TickWindowMinutes)

\* the date of the search criteria ['SINCE', date] of batch k, built at time t
SinceOf(k, t) == IF k = 0 THEN BackfillSince(t) ELSE TickSince(t)

\* imap.search: the UIDs of the account's INBOX the criteria match
SearchResults(email, sinceDay) ==
    {m.uid : m \in {x \in mailbox : x.owner = email /\ MatchesSince(x.date, sinceDay)}}

\* a callback reports an error: syncEmails rejects (the ready handler's catch
\* runs next); a tick logs and gives up
BatchFailed(i, k) ==
    /\ batch' = [batch EXCEPT ![i][k].pc = "done",
                              ![i][k].undelivered = {},
                              ![i][k].promise = IF k = 0
                                                THEN SyncSettled(batch[i][k], "rejected")
                                                ELSE @]
    /\ micro' = IF k = 0 THEN SyncQueue(micro, batch[i][k], i, "rejected") ELSE micro

\* the callback of imap.openBox: on success build the criteria and search
OpenBoxDone(i, k, ok) ==
    /\ Idle
    /\ batch[i][k].pc = "openBox"
    /\ sess[i].state = "authenticated"
    /\ IF ok
       THEN /\ batch' = [batch EXCEPT ![i][k].pc = "search",
                                      ![i][k].searched = TRUE,
                                      ![i][k].since = SinceOf(k, now),
                                      ![i][k].at = now]
            /\ UNCHANGED micro
       ELSE BatchFailed(i, k)
    /\ UNCHANGED <<config, now, mailbox, isRunning, connections, startPc, startI,
                   startErr, sess, timer, tasks, store, crashed, stopCalls,
                   requests, api, elapsed, hist>>

\* the callback of imap.search: nothing matched, or fetch what matched
SearchDone(i, k, ok) ==
    /\ Idle
    /\ batch[i][k].pc = "search"
    /\ sess[i].state = "authenticated"
    /\ IF ok
       THEN LET results == SearchResults(Email(i), batch[i][k].since) IN
            IF results = {}
            THEN /\ batch' = [batch EXCEPT ![i][k].pc = "done",
                                  ![i][k].promise = IF k = 0
                                        THEN SyncSettled(batch[i][k], "resolved")
                                        ELSE @]
                 /\ micro' = IF k = 0
                             THEN SyncQueue(micro, batch[i][k], i, "resolved")
                             ELSE micro
            ELSE /\ batch' = [batch EXCEPT ![i][k].pc = "fetch",
                                           ![i][k].results = results,
                                           ![i][k].undelivered = results]
                 /\ UNCHANGED micro
       ELSE BatchFailed(i, k)
    /\ UNCHANGED <<config, now, mailbox, isRunning, connections, startPc, startI,
                   startErr, sess, timer, tasks, store, crashed, stopCalls,
                   requests, api, elapsed, hist>>

\* the fetch emits 'message' for u and the message emits 'end':
\* processEmailMessage starts parsing it with the attributes it has by then
Deliver(i, k, u, attributes) ==
    /\ Idle
    /\ batch[i][k].pc = "fetch"
    /\ sess[i].state = "authenticated"
    /\ u \in batch[i][k].undelivered
    /\ batch' = [batch EXCEPT ![i][k].undelivered = @ \ {u},
                              ![i][k].pc = IF batch[i][k].undelivered = {u}
                                           THEN "done" ELSE @]
    /\ tasks' = tasks \cup {[sess |-> i, batch |-> k, uid |-> u,
                             attributes |-> attributes,
                             stage |-> "parsing", cat |-> NoCategory,
                             outcome |-> NoOutcome]}
    /\ hist' = [hist EXCEPT !.processed = @ \cup {<<i, k, u>>}]
    /\ UNCHANGED <<config, now, mailbox, isRunning, connections, startPc, startI,
                   startErr, micro, sess, timer, store, crashed, stopCalls,
                   requests, api, elapsed>>

\* a message whose 'attributes' event came before its 'end'
FetchMessage(i, k, u) == Deliver(i, k, u, Attributes(u))

\* a message that ends without an 'attributes' event
FetchBare(i, k, u) == Deliver(i, k, u, NoAttributes)

\* the fetch emits 'end' although some of the matched messages were never
\* delivered (they left the mailbox between the search and the fetch): the
\* handler only logs
FetchEnd(i, k) ==
    /\ Idle
    /\ batch[i][k].pc = "fetch"
    /\ sess[i].state = "authenticated"
    /\ batch[i][k].undelivered # {}
    /\ batch' = [batch EXCEPT ![i][k].pc = "done"]
    /\ UNCHANGED <<config, now, mailbox, isRunning, connections, startPc, startI,
                   startErr, micro, sess, timer, tasks, store, crashed, stopCalls,
                   requests, api, elapsed, hist>>

\* the fetch emits 'error': syncEmails has a listener and rejects; the fetch
\* of a tick has none, and the emitter throws
FetchError(i, k) ==
    /\ Idle
    /\ batch[i][k].pc = "fetch"
    /\ sess[i].state = "authenticated"
    /\ BatchFailed(i, k)
    /\ crashed' = IF k # 0 THEN "unhandled fetch error" ELSE crashed
    /\ hist' = [hist EXCEPT !.fetchFailed = @ \cup {<<i, k>>}]
    /\ UNCHANGED <<config, now, mailbox, isRunning, connections, startPc, startI,
                   startErr, sess, timer, tasks, store, stopCalls, requests, api,
                   elapsed>>

\* ------------------------------------------------------------- the ready handler
\* setupIdleMode: setInterval(checkForNewEmails, 60000)
SetupIdleMode(i) ==
    timer' = [timer EXCEPT ![i] = [active |-> TRUE,
                                   nextFire |-> now + PollIntervalMinutes,
                                   fired |-> 0]]

\* the ready handler resumes after `await this.syncEmails(email, imap)`
ReadyCont(i) ==
    /\ Alive
    /\ micro # <<>>
    /\ Head(micro) = [k |-> "readyCont", i |-> i]
    /\ SetupIdleMode(i)
    /\ sess' = [sess EXCEPT ![i].promise = InitSettled(sess[i], "resolved")]
    /\ micro' = InitQueue(Tail(micro), sess[i], i, "resolved")
    /\ UNCHANGED <<config, now, mailbox, isRunning, connections, startPc, startI,
                   startErr, batch, tasks, store, crashed, stopCalls, requests, api,
                   elapsed, hist>>

\* the catch block of the ready handler: log and reject
ReadyCatch(i) ==
    /\ Alive
    /\ micro # <<>>
    /\ Head(micro) = [k |-> "readyCatch", i |-> i]
    /\ sess' = [sess EXCEPT ![i].promise = InitSettled(sess[i], "rejected")]
    /\ micro' = InitQueue(Tail(micro), sess[i], i, "rejected")
    /\ UNCHANGED <<config, now, mailbox, isRunning, connections, startPc, startI,
                   startErr, batch, timer, tasks, store, crashed, stopCalls,
                   requests, api, elapsed, hist>>

\* -------------------------------------------------------- processEmailMessage
\* a categorizeEmail that returns the answer without validating it
categorizeEmailUnchecked(key, outcome) ==
    IF ~key THEN NotInterested
    ELSE IF ~outcome.ok THEN NotInterested
    ELSE Trim(outcome.content)

\* a categorizeEmail that has no default for a failed classifier call
categorizeEmailUncaught(key, outcome) ==
    IF ~key THEN NotInterested
    ELSE IF ~outcome.ok THEN NoCategory
    ELSE IF Trim(outcome.content) \in categories THEN Trim(outcome.content)
    ELSE NotInterested

\* a categorizeEmail that calls the classifier without looking at the key
categorizeEmailKeyless(key, outcome) ==
    IF ~outcome.ok THEN NotInterested
    ELSE IF Trim(outcome.content) \in categories THEN Trim(outcome.content)
    ELSE NotInterested

\* categorizeEmail: the default without a key, on an error and on an answer
\* that, trimmed, is not one of this.categories
categorizeEmail(key, outcome) ==
    IF ~key THEN NotInterested
    ELSE IF ~outcome.ok THEN NotInterested
    ELSE IF Trim(outcome.content) \in categories THEN Trim(outcome.content)
    ELSE NotInterested

\* client.index({id, body}): the document of that id is replaced as a whole;
\* the body processEmailMessage sends has no category
indexEmail(st, id) == {d \in st : d.id # id} \cup {[id |-> id, category |-> NoCategory]}

\* an update that writes nothing
updateEmailCategoryUnwritten(st, id, category) == st

\* client.update({id, doc: {category}}): a partial update of an existing
\* document
updateEmailCategory(st, id, category) ==
    {IF d.id = id THEN [d EXCEPT !.category = category] ELSE d : d \in st}

HasDoc(st, id) == \E d \in st : d.id = id

\* an id that also depends on the pass that fetched the message
TaskIdPerPass(t) == EmailId(Email(t.sess), Attributes(<<t.batch, t.uid>>))

\* emailData.id of the message a task processes
TaskId(t) == EmailId(Email(t.sess), t.attributes)
Key(t) == <<t.sess, t.batch, t.uid>>

\* a callback that resolves the initial sync on the first message counted
CallbackFirst(t) ==
    LET i == t.sess
        k == t.batch
        n == batch[i][k].processedCount + 1
        last == k = 0 /\ n = 1
    IN /\ batch' = [batch EXCEPT ![i][k].processedCount = n,
                                 ![i][k].promise = IF last
                                                   THEN SyncSettled(batch[i][k], "resolved")
                                                   ELSE @]
       /\ micro' = IF last THEN SyncQueue(micro, batch[i][k], i, "resolved") ELSE micro
       /\ tasks' = tasks \ {t}

\* callback(): count the message; the initial sync resolves on the last one
Callback(t) ==
    LET i == t.sess
        k == t.batch
        n == batch[i][k].processedCount + 1
        last == k = 0 /\ n = Cardinality(batch[i][k].results)
    IN /\ batch' = [batch EXCEPT ![i][k].processedCount = n,
                                 ![i][k].promise = IF last
                                                   THEN SyncSettled(batch[i][k], "resolved")
                                                   ELSE @]
       /\ micro' = IF last THEN SyncQueue(micro, batch[i][k], i, "resolved") ELSE micro
       /\ tasks' = tasks \ {t}

\* the task moves on to its next await
Await(t, stage, cat, outcome) ==
    /\ tasks' = (tasks \ {t}) \cup {[t EXCEPT !.stage = stage, !.cat = cat,
                                                !.outcome = outcome]}
    /\ UNCHANGED <<batch, micro>>

\* the sinks are called whatever the category is
AfterUpdateAnyCategory(cat) ==
    IF slackUrl THEN "slack"
    ELSE IF webhookUrl THEN "webhook"
    ELSE "emit"

\* what follows the category update: the sinks for an Interested message
\* (a sink without URL returns at once), then the event and the callback
AfterUpdate(cat) ==
    IF cat # Interested THEN "emit"
    ELSE IF slackUrl THEN "slack"
    ELSE IF webhookUrl THEN "webhook"
    ELSE "emit"

AfterSlack == IF webhookUrl THEN "webhook" ELSE "emit"

\* ------------------------------------------------------------------ the sinks
\* what an outbound POST meets: no answer (a network error, a timeout), or a
\* response with a status code
NoResponse == [answered |-> FALSE, status |-> 0]
Response(status) == [answered |-> TRUE, status |-> status]

\* how a call ends: it returns a value or it throws
Returned(v) == [kind |-> "return", value |-> v]
Thrown == [kind |-> "throw", value |-> FALSE]

\* axios.post: resolves with the response when its status is 2xx (the default
\* validateStatus), rejects otherwise
axiosPost(r) ==
    IF r.answered /\ r.status >= 200 /\ r.status < 300 THEN Returned(r.status)
    ELSE Thrown

\* catch (error) { log; return false; }
CatchFalse(x) == IF x.kind = "throw" THEN Returned(FALSE) ELSE x

\* the try block of SlackService.sendNotification
sendNotificationTry(url, r) ==
    IF ~url THEN Returned(FALSE)
    ELSE LET response == axiosPost(r) IN
         IF response.kind = "throw" THEN Thrown
         ELSE Returned(response.value = 200)

\* a sendNotification without its catch block
sendNotificationUncaught(url, r) == sendNotificationTry(url, r)

\* SlackService.sendNotification
sendNotification(url, r) == CatchFalse(sendNotificationTry(url, r))

\* the try block of WebhookService.triggerWebhook and triggerBatchWebhook
triggerWebhookTry(url, r) ==
    IF ~url THEN Returned(FALSE)
    ELSE LET response == axiosPost(r) IN
         IF response.kind = "throw" THEN Thrown
         ELSE Returned(response.value >= 200 /\ response.value < 300)

\* WebhookService.triggerWebhook
triggerWebhook(url, r) == CatchFalse(triggerWebhookTry(url, r))

\* WebhookService.triggerBatchWebhook
triggerBatchWebhook(url, r) == CatchFalse(triggerWebhookTry(url, r))

\* a sink call that has ended: an outbound request is made when the URL is set
SinkCall(sink, key, url, r, result) ==
    [sink |-> sink, key |-> key, requested |-> url,
     response |-> IF url THEN r ELSE NoResponse, result |-> result]

\* the sinks called on the way to stage `to`, from the stage `from`
SlackCalled(from, to, cat) == from = "updating" /\ cat = Interested
WebhookCalled(from, to, cat) ==
    cat = Interested /\ (to = "webhook" \/ to = "emit")

\* the sink calls made on the way to stage `to` that return at once because
\* their URL is not set
Unsent(t, to, cat) ==
    (IF SlackCalled(t.stage, to, cat) /\ ~slackUrl
     THEN {SinkCall("slack", Key(t), FALSE, NoResponse,
                    sendNotification(FALSE, NoResponse))}
     ELSE {})
    \cup
    (IF WebhookCalled(t.stage, to, cat) /\ ~webhookUrl
     THEN {SinkCall("webhook", Key(t), FALSE, NoResponse,
                    triggerWebhook(FALSE, NoResponse))}
     ELSE {})

\* the task goes on to stage `to`; `ended` are the sink calls that returned;
\* at "emit": io.to('email-updates').emit('new-email', ...) and callback()
ProceedWith(t, to, cat, ended) ==
    /\ IF to = "emit" THEN Callback(t) ELSE Await(t, to, cat, t.outcome)
    /\ hist' = [hist EXCEPT
            !.slack = IF SlackCalled(t.stage, to, cat) THEN @ \cup {Key(t)} ELSE @,
            !.webhook = IF WebhookCalled(t.stage, to, cat) THEN @ \cup {Key(t)} ELSE @,
            !.sinks = @ \cup ended \cup Unsent(t, to, cat),
            !.emitted = IF to = "emit"
                        THEN @ \cup {[key |-> Key(t), id |-> TaskId(t),
                                      category |-> cat]}
                        ELSE @]

\* the task goes on without publishing the event
ProceedSilent(t, to, cat) ==
    /\ IF to = "emit" THEN Callback(t) ELSE Await(t, to, cat, t.outcome)
    /\ hist' = [hist EXCEPT
            !.slack = IF SlackCalled(t.stage, to, cat) THEN @ \cup {Key(t)} ELSE @,
            !.webhook = IF WebhookCalled(t.stage, to, cat) THEN @ \cup {Key(t)} ELSE @,
            !.sinks = @ \cup Unsent(t, to, cat)]

\* the task goes on after the category update
Proceed(t, to, cat) == ProceedWith(t, to, cat, {})

\* a catch block that logs and does not call callback()
SkipWithoutCallback(t) ==
    /\ tasks' = tasks \ {t}
    /\ UNCHANGED <<batch, micro>>
    /\ hist' = [hist EXCEPT !.skipped = @ \cup {[key |-> Key(t), stage |-> t.stage]}]

\* the catch block: log, callback()
Skip(t) ==
    /\ Callback(t)
    /\ hist' = [hist EXCEPT !.skipped = @ \cup {[key |-> Key(t), stage |-> t.stage]}]

\* simpleParser(buffer) settles; on success indexEmail is called
ParseDone(t, ok) ==
    /\ Idle
    /\ t \in tasks
    /\ t.stage = "parsing"
    /\ IF ok THEN Await(t, "indexing", NoCategory, NoOutcome) /\ UNCHANGED hist
             ELSE Skip(t)
    /\ UNCHANGED <<config, now, mailbox, isRunning, connections, startPc, startI,
                   startErr, sess, timer, store, crashed, stopCalls, requests, api,
                   elapsed>>

\* indexEmail settles; on success categorizeEmail is called, which returns
\* its default at once when no key is configured
IndexDone(t, ok) ==
    /\ Idle
    /\ t \in tasks
    /\ t.stage = "indexing"
    /\ IF ok
       THEN /\ store' = indexEmail(store, TaskId(t))
            /\ IF apiKey
               THEN Await(t, "classifying", NoCategory, NoOutcome)
               ELSE Await(t, "updating", categorizeEmail(apiKey, NoOutcome), NoOutcome)
            /\ UNCHANGED hist
       ELSE /\ Skip(t)
            /\ UNCHANGED store
    /\ UNCHANGED <<config, now, mailbox, isRunning, connections, startPc, startI,
                   startErr, sess, timer, crashed, stopCalls, requests, api, elapsed>>

\* the classifier call settles: categorizeEmail returns, updateEmailCategory
\* is called
ClassifyDone(t, outcome) ==
    /\ Idle
    /\ t \in tasks
    /\ t.stage = "classifying"
    /\ outcome \in classifier
    /\ Await(t, "updating", categorizeEmail(apiKey, outcome), outcome)
    /\ UNCHANGED <<config, now, mailbox, isRunning, connections, startPc, startI,
                   startErr, sess, timer, store, crashed, stopCalls, requests, api,
                   elapsed, hist>>

\* updateEmailCategory settles (it fails when the document is missing)
UpdateDone(t, ok) ==
    /\ Idle
    /\ t \in tasks
    /\ t.stage = "updating"
    /\ ok => HasDoc(store, TaskId(t))
    /\ IF ok
       THEN /\ store' = updateEmailCategory(store, TaskId(t), t.cat)
            /\ Proceed(t, AfterUpdate(t.cat), t.cat)
       ELSE /\ Skip(t)
            /\ UNCHANGED store
    /\ UNCHANGED <<config, now, mailbox, isRunning, connections, startPc, startI,
                   startErr, sess, timer, crashed, stopCalls, requests, api, elapsed>>

\* slackService.sendNotification settles: the POST met r; an exception out
\* of the call would be taken by the catch block
SlackDone(t, r) ==
    /\ Idle
    /\ t \in tasks
    /\ t.stage = "slack"
    /\ LET result == sendNotification(slackUrl, r) IN
       IF result.kind = "throw" THEN Skip(t)
       ELSE ProceedWith(t, AfterSlack, t.cat,
                        {SinkCall("slack", Key(t), slackUrl, r, result)})
    /\ UNCHANGED <<config, now, mailbox, isRunning, connections, startPc, startI,
                   startErr, sess, timer, store, crashed, stopCalls, requests, api,
                   elapsed>>

\* the chat endpoint holds the request open and never answers: axios.post is
\* called without a timeout, so sendNotification never settles and the
\* message's processing stays at this await
SlackUnanswered(t) ==
    /\ Idle
    /\ t \in tasks
    /\ t.stage = "slack"
    /\ Await(t, "slackUnanswered", t.cat, t.outcome)
    /\ UNCHANGED <<config, now, mailbox, isRunning, connections, startPc, startI,
                   startErr, sess, timer, store, crashed, stopCalls, requests, api,
                   elapsed, hist>>

\* webhookService.triggerWebhook settles: the POST met r (with its timeout of
\* 10 s the POST always settles)
WebhookDone(t, r) ==
    /\ Idle
    /\ t \in tasks
    /\ t.stage = "webhook"
    /\ LET result == triggerWebhook(webhookUrl, r) IN
       IF result.kind = "throw" THEN Skip(t)
       ELSE ProceedWith(t, "emit", t.cat,
                        {SinkCall("webhook", Key(t), webhookUrl, r, result)})
    /\ UNCHANGED <<config, now, mailbox, isRunning, connections, startPc, startI,
                   startErr, sess, timer, store, crashed, stopCalls, requests, api,
                   elapsed>>

\* the key of a call that belongs to no fetched message
NoKey == <<0, 0, 0>>

BatchCalls == Cardinality({c \in hist.sinks : c.sink = "batch"})

\* webhookService.triggerBatchWebhook(emails) is called and settles: the POST
\* met r
TriggerBatchWebhook(r) ==
    /\ Idle
    /\ BatchCalls < MaxBatchCalls
    /\ hist' = [hist EXCEPT !.sinks = @ \cup
                    {SinkCall("batch", NoKey, webhookUrl, r,
                              triggerBatchWebhook(webhookUrl, r))}]
    /\ UNCHANGED <<config, now, mailbox, isRunning, connections, startPc, startI,
                   startErr, micro, sess, batch, timer, tasks, store, crashed,
                   stopCalls, requests, api, elapsed>>

\* -------------------------------------------------------------- setupIdleMode
\* checkForNewEmails up to its first callback: return when the address is not
\* registered, else imap.openBox on this session's Imap object. On an object
\* that is no longer authenticated the library either throws (nothing catches
\* it in the timer callback) or never calls back.
CheckForNewEmails(i, k, throws) ==
    IF ~MapHas(connections, Email(i))
    THEN UNCHANGED <<batch, crashed>>
    ELSE IF sess[i].state # "authenticated" /\ throws
    THEN /\ crashed' = "openBox on a closed session"
         /\ UNCHANGED batch
    ELSE /\ batch' = [batch EXCEPT ![i][k] = [NoBatch EXCEPT !.pc = "openBox",
                                                         !.afterStop = stopCalls > 0]]
         /\ UNCHANGED crashed

\* the interval timer of session i fires
Tick(i, throws) ==
    /\ Idle
    /\ timer[i].active
    /\ now >= timer[i].nextFire
    /\ timer[i].fired + 1 \in Batches
    /\ timer' = [timer EXCEPT ![i].fired = @ + 1,
                              ![i].nextFire = @ + PollIntervalMinutes]
    /\ CheckForNewEmails(i, timer[i].fired + 1, throws)
    /\ UNCHANGED <<config, now, mailbox, isRunning, connections, startPc, startI,
                   startErr, micro, sess, tasks, store, stopCalls, requests, api,
                   elapsed, hist>>

\* a minute passes; timers that are due fire first
Advance ==
    /\ Idle
    /\ elapsed < MaxElapsed
    /\ \A i \in Sessions : timer[i].active => timer[i].nextFire > now
    /\ now' = now + 1
    /\ elapsed' = elapsed + 1
    /\ UNCHANGED <<config, mailbox, isRunning, connections, startPc, startI,
                   startErr, micro, sess, batch, timer, tasks, store, crashed,
                   stopCalls, requests, api, hist>>

\* a minute passes while a tick waits for the callback of its openBox
Latency ==
    /\ Idle
    /\ elapsed < MaxElapsed + MaxLatency
    /\ \E i \in Sessions, k \in Batches \ {0} : batch[i][k].pc = "openBox"
    /\ \A i \in Sessions : timer[i].active => timer[i].nextFire > now
    /\ now' = now + 1
    /\ elapsed' = elapsed + 1
    /\ UNCHANGED <<config, mailbox, isRunning, connections, startPc, startI,
                   startErr, micro, sess, batch, timer, tasks, store, crashed,
                   stopCalls, requests, api, hist>>

\* the mail server delivers a new message to the INBOX of account i, whose
\* backfill is over and whose session is connected; it gets the next UID
Arrive(i) ==
    /\ Idle
    /\ sess[i].state = "authenticated"
    /\ batch[i][0].promise = "resolved"
    /\ Cardinality(hist.arrived) < MaxArrivals
    /\ LET u == Cardinality(mailbox) + 1 IN
         /\ mailbox' = mailbox \cup {[uid |-> u, owner |-> Email(i), date |-> now]}
         /\ hist' = [hist EXCEPT !.arrived = @ \cup {u}]
    /\ UNCHANGED <<config, now, isRunning, connections, startPc, startI,
                   startErr, micro, sess, batch, timer, tasks, store, crashed,
                   stopCalls, requests, api, elapsed>>

\* ------------------------------------------------- PATCH /api/emails/:id/category
\* a validation that only asks for a value
ValidCategoryAny(body) == body.set

\* Joi.string().valid(...the five...).required(): the value must be present
\* and equal to one of the five, as it is (no trimming, no case folding)
ValidCategory(body) == body.set /\ body.val \in categories

\* the status code of the route's response: 400 from the validation, 500
\* when the store's update fails (no document of that id), else 200
UpdateCategoryCode(st, id, body) ==
    IF ~ValidCategory(body) THEN 400
    ELSE IF ~HasDoc(st, id) THEN 500
    ELSE 200

\* EmailRoutes.updateEmailCategory: validate, then update the store; the
\* server listens only once start() has resolved
UpdateCategoryRoute(id, body) ==
    /\ Idle
    /\ startPc = "resolved"
    /\ requests < MaxRequests
    /\ requests' = requests + 1
    /\ IF UpdateCategoryCode(store, id, body) = 200
       THEN store' = updateEmailCategory(store, id, body.val)
       ELSE UNCHANGED store
    /\ UNCHANGED <<hist, config, now, mailbox, isRunning, connections, startPc, startI,
                   startErr, micro, sess, batch, timer, tasks, crashed, stopCalls,
                   elapsed, api>>

\* ------------------------------------------------------------ the HTTP server
\* app.start() calls server.listen only after imapSyncService.start() has
\* resolved
Listening == startPc = "resolved"

\* ------------------------------------------------- POST /api/ai/categorize/batch
\* Joi.array().items(...).min(1).max(50).required() on a list of well-formed
\* emails
BatchValidUnbounded(emails) == Len(emails) >= BatchMin

BatchValid(emails) == Len(emails) >= BatchMin /\ Len(emails) <= BatchLimit

\* a push that puts the entry in front
BatchPushFront(results, email, category) ==
    <<[id |-> email.id, category |-> category]>> \o results

\* results.push({id: email.id, category: category})
BatchPush(results, email, category) ==
    Append(results, [id |-> email.id, category |-> category])

\* categorizeEmail(email) is called: with a key it calls the classifier
BatchCall(log, j) == IF apiKey THEN Append(log, <<"call", j>>) ELSE log

\* AICategorizationRoutes.batchCategorizeEmails: validate, answer 400, or
\* enter the loop of the service's batchCategorizeEmails
BatchCategorizeRoute(emails) ==
    /\ Idle
    /\ Listening
    /\ api.pc = "idle"
    /\ api' = IF BatchValid(emails)
              THEN [api EXCEPT !.emails = emails, !.pc = "categorize",
                               !.log = BatchCall(<<>>, 1)]
              ELSE [api EXCEPT !.emails = emails, !.pc = "done", !.code = 400]
    /\ UNCHANGED <<config, now, mailbox, isRunning, connections, startPc, startI,
                   startErr, micro, sess, batch, timer, tasks, store, crashed,
                   stopCalls, requests, elapsed, hist>>

\* `await this.categorizeEmail(email)` returns for the current email: push
\* its entry and start the delay
BatchCategorizeDone ==
    /\ Idle
    /\ api.pc = "categorize"
    /\ LET j == Len(api.results) + 1
           email == api.emails[j]
       IN api' = [api EXCEPT
                    !.results = BatchPush(@, email, categorizeEmail(apiKey, email.outcome)),
                    !.log = IF apiKey THEN Append(@, <<"return", j>>) ELSE @,
                    !.pc = "delay"]
    /\ UNCHANGED <<config, now, mailbox, isRunning, connections, startPc, startI,
                   startErr, micro, sess, batch, timer, tasks, store, crashed,
                   stopCalls, requests, elapsed, hist>>

\* the setTimeout(resolve, 100) after an email fires: the loop takes the next
\* email, or returns the results and the route answers
BatchDelayDone ==
    /\ Idle
    /\ api.pc = "delay"
    /\ LET j == Len(api.results)
           waited == Append(api.log, <<"delay", BatchDelayMs>>)
       IN api' = IF j = Len(api.emails)
                 THEN [api EXCEPT !.pc = "done", !.code = 200, !.log = waited]
                 ELSE [api EXCEPT !.pc = "categorize",
                                  !.log = BatchCall(waited, j + 1)]
    /\ UNCHANGED <<config, now, mailbox, isRunning, connections, startPc, startI,
                   startErr, micro, sess, batch, timer, tasks, store, crashed,
                   stopCalls, requests, elapsed, hist>>

\* ------------------------------------------------- POST /api/ai/reply/suggest
NotAvailableText == <<"AI reply generation not available">>
ErrorText == <<"Error generating reply. Please try again.">>

\* the nearest-neighbour lookup: it fails, or finds some stored contents
LookupFails == [ok |-> FALSE, items |-> <<>>]
LookupFinds(items) == [ok |-> TRUE, items |-> items]

\* a findRelevantTrainingData that lets the lookup's error through
findRelevantTrainingDataUncaught(lookup) ==
    IF lookup.ok THEN Returned(lookup.items) ELSE Thrown

\* findRelevantTrainingData: the contents found, [] when the lookup fails
findRelevantTrainingData(lookup) ==
    Returned(IF lookup.ok THEN lookup.items ELSE <<>>)

\* relevantContext: empty unless the vector database is initialized and the
\* lookup found something
RelevantContext(ready, lookup) ==
    IF ready THEN findRelevantTrainingData(lookup) ELSE Returned(<<>>)

\* combinedTrainingData: the supplied text, then the context when there is one
CombinedTrainingData(trainingData, context) ==
    trainingData \o (IF context # <<>> THEN <<"Relevant Context:">> \o context ELSE <<>>)

\* the text the generator is asked with, <<>> when it is not called
ReplyPrompt(key, ready, lookup, trainingData) ==
    LET found == RelevantContext(ready, lookup) IN
    IF ~key \/ found.kind = "throw" THEN <<>>
    ELSE CombinedTrainingData(trainingData, found.value)

\* the try block of generateSuggestedReply; gen is the generator's outcome
generateSuggestedReplyTry(key, ready, lookup, gen, trainingData) ==
    IF ~key THEN Returned(NotAvailableText)
    ELSE IF RelevantContext(ready, lookup).kind = "throw" THEN Thrown
    ELSE IF gen.ok THEN Returned(Trim(gen.content))
    ELSE Thrown

\* generateSuggestedReply: its catch block returns the error text
generateSuggestedReply(key, ready, lookup, gen, trainingData) ==
    LET r == generateSuggestedReplyTry(key, ready, lookup, gen, trainingData) IN
    IF r.kind = "throw" THEN Returned(ErrorText) ELSE r

\* a reply is requested for an email with some training text
SuggestReply(ready, lookup, gen, trainingData) ==
    /\ Idle
    /\ Listening
    /\ Cardinality(api.replies) < MaxRequests
    /\ api' = [api EXCEPT !.replies = @ \cup
                 {[ready |-> ready, lookup |-> lookup, gen |-> gen,
                   trainingData |-> trainingData,
                   prompt |-> ReplyPrompt(apiKey, ready, lookup, trainingData),
                   result |-> generateSuggestedReply(apiKey, ready, lookup, gen,
                                                     trainingData)]}]
    /\ UNCHANGED <<config, now, mailbox, isRunning, connections, startPc, startI,
                   startErr, micro, sess, batch, timer, tasks, store, crashed,
                   stopCalls, requests, elapsed, hist>>

\* ------------------------------------------------------------- GET /health
\* a property of a service object: a method of its class, or a data property
\* the constructor assigns on the object, which hides a method of that name
Method(v) == [callable |-> TRUE, value |-> v]
DataProperty(v) == [callable |-> FALSE, value |-> v]

\* obj.name(): the value when the property is a function, a TypeError when
\* it is not
CallProperty(p) == IF p.callable THEN Returned(p.value) ELSE Thrown

\* elasticsearchService.isConnected: the constructor assigns
\* `this.isConnected = false` and initialize(), awaited before the server
\* listens, sets it to true
isConnectedProperty == DataProperty(TRUE)

\* imapSyncService.isRunning: the constructor assigns `this.isRunning =
\* false`; start() and stop() assign it
isRunningProperty == DataProperty(isRunning)

\* the handler of GET /health
HealthHandler ==
    LET es == CallProperty(isConnectedProperty)
        imap == CallProperty(isRunningProperty)
    IN IF es.kind = "throw" \/ imap.kind = "throw" THEN Thrown
       ELSE Returned([code |-> 200, status |-> "healthy",
                      elasticsearch |-> es.value, imap |-> imap.value])

\* what the client gets: the handler's JSON, or the 500 of the error
\* middleware when the handler threw
HealthResponse ==
    IF HealthHandler.kind = "throw"
    THEN [code |-> 500, status |-> "Internal server error",
          elasticsearch |-> FALSE, imap |-> FALSE]
    ELSE HealthHandler.value

\* a health request is received
Health ==
    /\ Idle
    /\ Listening
    /\ Cardinality(api.health) < MaxRequests
    /\ api' = [api EXCEPT !.health = @ \cup {HealthResponse}]
    /\ UNCHANGED <<config, now, mailbox, isRunning, connections, startPc, startI,
                   startErr, micro, sess, batch, timer, tasks, store, crashed,
                   stopCalls, requests, elapsed, hist>>

\* ------------------------------------------------------------ environments
AddrA == <<"a@x">>
AddrB == <<"b@x">>

\* EMAIL_ACCOUNTS and EMAIL_PASSWORDS: one entry, two entries
OneAccount == Str(AddrA)
TwoAccounts == Str(AddrA \o <<Comma, Blank>> \o AddrB)
OnePassword == Str(<<"pw">>)
TwoPasswords == Str(<<"pw", Comma, "pw">>)

\* what the classifier may answer
AllAnswers ==
    {Throws} \cup {Answer(c) : c \in categories}
    \cup {Answer(<<Blank, "Spam", Blank>>), Answer(<<"spam">>), Answer(<<"Maybe">>),
          Answer(<<>>), Answer(<<"Category:", Blank, "Interested">>)}

\* what a sink's POST may meet
Responses ==
    {NoResponse, Response(200), Response(201), Response(404), Response(500)}

\* what a category-update request may carry
RequestBodies ==
    {Undefined} \cup {Str(c) : c \in categories}
    \cup {Str(<<"spam">>), Str(<<Blank, "Spam">>), Str(<<>>), Str(<<"Maybe">>)}
RequestIds == {d.id : d \in store} \cup {EmailId(<<"nobody">>, Attributes(1))}

\* a day far enough from day 0 that the 30-day window stays positive; its
\* midnight, its noon and the minute before the next day
Today == 2 * BackfillDays
Midnight == Today * MinutesPerDay
Noon == Midnight + 12 * 60
BeforeMidnight == Midnight + MinutesPerDay - 1

\* one message of today in each account's INBOX
TodayBox ==
    {[uid |-> 1, owner |-> AddrA, date |-> Noon - 5],
     [uid |-> 2, owner |-> AddrB, date |-> Noon - 3]}

\* two messages of today in the first account's INBOX
TwoBox ==
    {[uid |-> 1, owner |-> AddrA, date |-> Noon - 5],
     [uid |-> 2, owner |-> AddrA, date |-> Noon - 3]}

\* ----------------------------------------------------------- specification
Init ==
    InitWith({OneAccount, TwoAccounts}, {OnePassword, TwoPasswords}, {FALSE}, {},
             {Noon}, {TodayBox})

\* start() and the connection of each account
Lifecycle ==
    \/ Start
    \/ \E i \in Sessions : StartCont(i)
    \/ \E i \in Sessions : StartCatch(i)
    \/ \E i \in Sessions : Ready(i)
    \/ \E i \in Sessions : ReadyCont(i)
    \/ \E i \in Sessions : ReadyCatch(i)

\* the callbacks of openBox, search and fetch
Sync ==
    \/ \E i \in Sessions, k \in Batches, ok \in BOOLEAN : OpenBoxDone(i, k, ok)
    \/ \E i \in Sessions, k \in Batches, ok \in BOOLEAN : SearchDone(i, k, ok)
    \/ \E i \in Sessions, k \in Batches, u \in Uids : FetchMessage(i, k, u)

\* the awaits of processEmailMessage that run without a classifier key
Pipeline ==
    \/ \E t \in tasks, ok \in BOOLEAN : ParseDone(t, ok)
    \/ \E t \in tasks, ok \in BOOLEAN : IndexDone(t, ok)
    \/ \E t \in tasks, ok \in BOOLEAN : UpdateDone(t, ok)

\* connection errors, connection ends, fetch errors and stop()
Disruptions ==
    \/ \E i \in Sessions : ErrorEvent(i)
    \/ \E i \in Sessions : EndEvent(i)
    \/ \E i \in Sessions, k \in Batches : FetchError(i, k)
    \/ Stop

\* the passing of time and the interval callbacks
Clock ==
    \/ \E i \in Sessions, throws \in BOOLEAN : Tick(i, throws)
    \/ Advance

Next == Lifecycle \/ Sync \/ Pipeline \/ Disruptions \/ Clock

\* the service with one or two accounts and no classifier key
Spec == Init /\ [][Next]_vars

\* the same service up to the first polling interval
NextStart == Lifecycle \/ Sync \/ Pipeline \/ Disruptions

SpecStart == Init /\ [][NextStart]_vars

\* the account and password lists unset, empty, or of one or two entries
InitConfig ==
    InitWith({Undefined, Str(<<>>), OneAccount},
             {Undefined, Str(<<>>), OnePassword, TwoPasswords}, {FALSE}, {},
             {Noon}, {TodayBox})

SpecConfig == InitConfig /\ [][Next]_vars

\* one message, dated around the day 30 days back or today
BoundaryDates ==
    {Midnight - (BackfillDays + 1) * MinutesPerDay,
     Midnight - BackfillDays * MinutesPerDay - 1,
     Midnight - BackfillDays * MinutesPerDay,
     Noon - BackfillDays * MinutesPerDay - 1,
     Noon - BackfillDays * MinutesPerDay,
     Midnight - (BackfillDays - 1) * MinutesPerDay - 1,
     Midnight - (BackfillDays - 1) * MinutesPerDay,
     Noon - 5}
BoundaryBoxes == {{[uid |-> 1, owner |-> AddrA, date |-> d]} : d \in BoundaryDates}

\* one account started at midnight, at noon or a minute before midnight
InitWindow ==
    InitWith({OneAccount}, {OnePassword}, {FALSE}, {},
             {Midnight, Noon, BeforeMidnight}, BoundaryBoxes)

SpecWindow == InitWindow /\ [][Next]_vars

\* one account, with and without a classifier key, any classifier answer, no
\* sink URL set, and category-update requests
InitCat ==
    InitState({OneAccount}, {OnePassword}, BOOLEAN, {<<FALSE, FALSE>>}, AllAnswers,
              {Noon}, {TodayBox})

\* the classifier call of categorizeEmail settles
Classify == \E t \in tasks, o \in classifier : ClassifyDone(t, o)

\* the sink calls of an Interested message settle
Notify ==
    \/ \E t \in tasks, r \in Responses : SlackDone(t, r)
    \/ \E t \in tasks : SlackUnanswered(t)
    \/ \E t \in tasks, r \in Responses : WebhookDone(t, r)

\* a category-update request arrives
Route == \E id \in RequestIds, body \in RequestBodies : UpdateCategoryRoute(id, body)

NextCat == Lifecycle \/ Sync \/ Pipeline \/ Clock \/ Classify \/ Route

SpecCat == InitCat /\ [][NextCat]_vars

\* one account with two messages, a classifier key and a classifier that
\* answers with a category or with something else
InitBatch ==
    InitWith({OneAccount}, {OnePassword}, {TRUE},
             {Answer(Spam), Answer(<<"Maybe">>)}, {Noon}, {TwoBox})

NextBatch == Lifecycle \/ Sync \/ Pipeline \/ Classify

SpecBatch == InitBatch /\ [][NextBatch]_vars

\* the batch webhook is called
BatchNotify == \E r \in Responses : TriggerBatchWebhook(r)

\* one account with one message, any classifier answer, each sink URL set or
\* not, any response to a sink's POST
InitSinks ==
    InitState({OneAccount}, {OnePassword}, {TRUE}, BOOLEAN \X BOOLEAN, AllAnswers,
              {Noon}, {TodayBox})

NextSinks == Lifecycle \/ Sync \/ Pipeline \/ Classify \/ Notify \/ BatchNotify

SpecSinks == InitSinks /\ [][NextSinks]_vars

\* a fetch that ends before it delivered every message the search matched
Shortfall == \E i \in Sessions, k \in Batches : FetchEnd(i, k)

\* a fetch that delivers a message without its attributes
Bare == \E i \in Sessions, k \in Batches, u \in Uids : FetchBare(i, k, u)

\* one account with two messages and no classifier key
InitFetch ==
    InitWith({OneAccount}, {OnePassword}, {FALSE}, {}, {Noon}, {TwoBox})

NextFetch == Lifecycle \/ Sync \/ Pipeline \/ Shortfall \/ Bare

SpecFetch == InitFetch /\ [][NextFetch]_vars

\* one account with two messages: the backfill, fetches that end early, and
\* the ticks
NextTicks == Lifecycle \/ Sync \/ Pipeline \/ Shortfall \/ Clock

SpecTicks == InitFetch /\ [][NextTicks]_vars

\* new mail, and slow answers of the server
Arrival ==
    \/ \E i \in Sessions : Arrive(i)
    \/ Latency

\* one account started at noon or in the last minute of the day
InitArrival ==
    InitWith({OneAccount}, {OnePassword}, {FALSE}, {}, {Noon, BeforeMidnight},
             {TodayBox})

NextArrival == Lifecycle \/ Sync \/ Pipeline \/ Clock \/ Arrival

SpecArrival == InitArrival /\ [][NextArrival]_vars

\* the emails of a batch request: what the classifier makes of each is
\* decided by its content
BatchEmails ==
    {[id |-> <<"m1">>, outcome |-> Answer(Spam)],
     [id |-> <<"m2">>, outcome |-> Throws],
     [id |-> <<"m3">>, outcome |-> Answer(<<"Maybe">>)]}

\* the lists of up to MaxBatchLen emails, a list of the greatest length the
\* route accepts and one that is one longer
BatchInputs ==
    UNION {[1 .. n -> BatchEmails] : n \in 0 .. MaxBatchLen}
    \cup {[j \in 1 .. n |-> [id |-> <<"m1">>, outcome |-> Answer(Spam)]] :
            n \in {BatchLimit, BatchLimit + 1}}

\* a batch categorization request and its loop
BatchCategorize ==
    \/ \E emails \in BatchInputs : BatchCategorizeRoute(emails)
    \/ BatchCategorizeDone
    \/ BatchDelayDone

\* one account, with and without a classifier key, and the requests of the
\* AI routes
InitApi ==
    InitState({OneAccount}, {OnePassword}, BOOLEAN, {<<FALSE, FALSE>>},
              {Answer(Spam)}, {Noon}, {TodayBox})

\* what the lookup and the generator may do, and the training text supplied
Lookups == {LookupFails, LookupFinds(<<>>), LookupFinds(<<"stored">>)}
Generations == {Throws, Answer(<<"Thanks">>), Answer(<<Blank, "Thanks", Blank>>)}
TrainingTexts == {<<"supplied">>}

\* a reply suggestion request
Reply ==
    \E ready \in BOOLEAN, lookup \in Lookups, gen \in Generations,
       trainingData \in TrainingTexts :
        SuggestReply(ready, lookup, gen, trainingData)

NextApi == Lifecycle \/ Sync \/ Pipeline \/ Classify \/ BatchCategorize \/ Reply

SpecApi == InitApi /\ [][NextApi]_vars

\* the service up to the first polling interval, and health requests
NextHealth == NextStart \/ Health

SpecHealth == Init /\ [][NextHealth]_vars

\* =================================================================== claims
\* the messages of account i's INBOX
Inbox(i) == {m \in mailbox : m.owner = Email(i)}

\* how many times message u was run through the pipeline
TimesProcessed(u) == Cardinality({p \in hist.processed : p[3] = u})

\* account i's connection or initial sync failed
AccountFailed(i) == sess[i].promise = "rejected" \/ batch[i][0].promise = "rejected"

\* C2: each message is run through the pipeline exactly once over the
\* lifetime of the service: no message is processed a second time by a tick
\* after the initial sync or by a later tick.
C2_ProcessedOnce == \A u \in Uids : TimesProcessed(u) <= 1

\* C3: the search of every incremental tick matches only messages whose
\* timestamp lies within the one minute before the tick.
C3_TickWindow ==
    \A i \in Sessions : \A k \in Batches \ {0} : \A u \in batch[i][k].results :
        /\ DateOf(u) >= batch[i][k].at - TickWindowMinutes
        /\ DateOf(u) <= batch[i][k].at

\* C5: account managers are independent: when one account fails, every other
\* configured account has still opened its own session.
C5_Independent ==
    (startPc = "rejected" /\ startErr.kind = "account")
        => \A i \in Sessions : sess[i].state # "none"

\* C6: start() resolves only after every configured account has completed its
\* initial sync; when an account's connection or initial sync fails, start()
\* rejects with that account's error and the service is not marked running.
C6_StartOutcome ==
    /\ startPc = "resolved" => \A i \in Sessions : batch[i][0].promise = "resolved"
    /\ \A i \in Sessions : (AccountFailed(i) /\ micro = <<>>) =>
           /\ startPc = "rejected"
           /\ startErr = AccountError(i)
           /\ ~isRunning

\* C6 witness: the first account completed its initial sync, the second one's
\* initial sync failed and start() rejected
C6_Witness ==
    /\ Len(emailAccounts) = 2
    /\ batch[1][0].promise = "resolved"
    /\ batch[2][0].promise = "rejected"
    /\ startPc = "rejected"

\* C7: with no configured account (the list missing or empty), or with
\* different numbers of addresses and credentials, start() fails with a
\* configuration error before any connection is opened, the registry stays
\* empty and the service is not marked running.
Entries(e) == IF ~e.set \/ e.val = <<>> THEN 0 ELSE Len(Split(e.val))
C7_ConfigRejected ==
    (/\ startPc # "idle"
     /\ \/ Entries(envAccounts) = 0
        \/ Entries(envAccounts) # Entries(envPasswords)) =>
        /\ startPc = "rejected"
        /\ startErr.kind \in {"No email accounts configured",
                              "Email accounts and passwords count mismatch"}
        /\ \A i \in Sessions : sess[i].state = "none"
        /\ connections = {}
        /\ ~isRunning

\* C8: stop() returns only after every session that was open has acknowledged
\* that it is closed (its 'end' event occurred).
C8_StopWaits == stopCalls > 0 => \A i \in hist.stopOpen : sess[i].ended

\* C9: after stop() has been called no new incremental tick starts: no tick
\* that begins after stop() issues a search.
C9_NoTickAfterStop ==
    \A i \in Sessions : \A k \in Batches \ {0} :
        batch[i][k].afterStop => ~batch[i][k].searched

\* C10: a transport error on a session moves the account to Disconnected and
\* removes it from the registry, and no error event brings the process down.
C10_ErrorIsolated ==
    /\ \A i \in Sessions : sess[i].errors > 0 =>
           /\ sess[i].state = "disconnected"
           /\ ~\E c \in connections : c.sess = i
    /\ crashed # "unhandled error event"

\* C1: every category categorizeEmail returns and every category written to
\* the store is one of the five, whatever the classifier answers; an answer
\* that (trimmed) is none of the five is replaced by Not Interested.
C1_CategoryClosed ==
    /\ \A t \in tasks : t.stage \in {"updating", "slack", "webhook"} =>
           /\ t.cat \in {Interested, MeetingBooked, NotInterested, Spam, OutOfOffice}
           /\ t.cat # NotInterested =>
                  (apiKey /\ t.outcome.ok /\ Trim(t.outcome.content) = t.cat)
    /\ \A d \in store :
           d.category \in {NoCategory, Interested, MeetingBooked, NotInterested,
                           Spam, OutOfOffice}

\* C1 witness: the classifier answered outside the five and the message is
\* about to be stored as Not Interested
C1_Witness ==
    \E t \in tasks : /\ t.stage = "updating"
                     /\ t.outcome = Answer(<<"Maybe">>)
                     /\ t.cat = NotInterested

\* the initial search of account i returned its matches
BackfillMatched(i) == batch[i][0].results # {} \/ batch[i][0].promise = "resolved"

\* C4 as stated: the initial search matches exactly the messages whose
\* timestamp lies within the 30 days before the account's manager started.
C4_ExactWindow ==
    \A i \in Sessions : BackfillMatched(i) =>
        batch[i][0].results =
            {m.uid : m \in {x \in Inbox(i) :
                              x.date >= sess[i].openedAt - BackfillDays * MinutesPerDay}}

\* C4 amended: the initial search matches exactly the messages whose calendar
\* day is on or after the calendar day of the instant 30 days before the search
\* is built; so every message of the trailing 30 days is matched, and none
\* dated 31 days or more before the search.
C4_DayWindow ==
    \A i \in Sessions : BackfillMatched(i) =>
        \A m \in Inbox(i) :
            /\ m.uid \in batch[i][0].results <=>
                   (m.date \div MinutesPerDay
                        >= (batch[i][0].at - BackfillDays * MinutesPerDay) \div MinutesPerDay)
            /\ m.date >= batch[i][0].at - BackfillDays * MinutesPerDay
                   => m.uid \in batch[i][0].results
            /\ m.uid \in batch[i][0].results
                   => m.date > batch[i][0].at - (BackfillDays + 1) * MinutesPerDay

\* C4 witness: the initial search matched a message older than 30 days
C4_Witness ==
    \E i \in Sessions : \E u \in batch[i][0].results :
        DateOf(u) < batch[i][0].at - BackfillDays * MinutesPerDay

\* the processEmailMessage calls of batch k of session i still in progress
InFlight(i, k) == {t \in tasks : t.sess = i /\ t.batch = k}

\* the catch block took an error of the message's processing
SkippedAt(key) == \E x \in hist.skipped : x.key = key

\* every message batch k of session i fetched was delivered and its
\* processing has ended
Finished(i, k) ==
    /\ batch[i][k].results # {}
    /\ batch[i][k].undelivered = {}
    /\ InFlight(i, k) = {}
    /\ <<i, k>> \notin hist.fetchFailed

\* the document of message u of session i, stored with one of the five
StoredAndClassified(i, u) ==
    \E d \in store : d.id = EmailId(Email(i), Attributes(u)) /\ d.category \in categories

\* C11: when the processing of a message of a batch raises an error (parsing,
\* storing or updating the category), the message is skipped: it publishes no
\* event, every other message of the batch is still stored and classified,
\* each message is counted once and the initial sync still completes.
C11_SiblingsProcessed ==
    \A i \in Sessions : \A k \in Batches : Finished(i, k) =>
        /\ batch[i][k].processedCount = Cardinality(batch[i][k].results)
        /\ k = 0 => batch[i][k].promise = "resolved"
        /\ \A u \in batch[i][k].results :
               IF SkippedAt(<<i, k, u>>)
               THEN ~\E e \in hist.emitted : e.key = <<i, k, u>>
               ELSE StoredAndClassified(i, u)

\* C11 witness: of a batch of two, one message was skipped and the other one
\* is stored and classified
C11_Witness ==
    \E i \in Sessions : \E u, v \in batch[i][0].results :
        /\ Finished(i, 0)
        /\ u # v
        /\ SkippedAt(<<i, 0, u>>)
        /\ ~SkippedAt(<<i, 0, v>>)
        /\ StoredAndClassified(i, v)

\* C12: a fetch failure during a batch is contained: it does not fail the
\* initial sync (and with it start()), and it does not bring the process down.
C12_FetchErrorContained ==
    \A f \in hist.fetchFailed :
        /\ batch[f[1]][f[2]].promise # "rejected"
        /\ startErr # AccountError(f[1])
        /\ crashed # "unhandled fetch error"

\* C13: a message whose payload could not be parsed is stored all the same:
\* its document is in the store.
C13_UnparseableStored ==
    \A x \in hist.skipped :
        x.stage = "parsing" => HasDoc(store, EmailId(Email(x.key[1]), Attributes(x.key[3])))

\* C14: a message whose category is Interested has both sinks invoked, a
\* message of any other category has neither, a sink call is in progress only
\* for an Interested message, and every message whose processing ended
\* without an error has its new-email event published.
C14_Routing ==
    /\ \A e \in hist.emitted :
           /\ e.category = Interested <=> e.key \in hist.slack
           /\ e.category = Interested <=> e.key \in hist.webhook
    /\ \A t \in tasks :
           /\ t.stage \in {"slack", "webhook"} => t.cat = Interested
           /\ Key(t) \in hist.slack \cup hist.webhook => t.cat = Interested
    /\ \A key \in hist.processed :
           \/ \E t \in tasks : Key(t) = key
           \/ \E x \in hist.skipped : x.key = key
           \/ \E e \in hist.emitted : e.key = key

\* C14 witness: an Interested message had both sinks invoked and its event
\* published
C14_Witness ==
    \E e \in hist.emitted :
        /\ e.category = Interested
        /\ e.key \in hist.slack
        /\ e.key \in hist.webhook

\* C15: the two sinks fail independently: a chat call that returned false
\* was followed by the webhook call, a webhook call was preceded by the chat
\* call, and a chat call that never answers does not keep the webhook from
\* being called.
C15_SinksIndependent ==
    /\ \A c \in hist.sinks :
           /\ (c.sink = "slack" /\ c.result = Returned(FALSE)) => c.key \in hist.webhook
           /\ c.sink = "webhook" => c.key \in hist.slack
    /\ \A t \in tasks : t.stage = "slackUnanswered" => Key(t) \in hist.webhook

\* the POST got a successful (2xx) response
Succeeded(r) == r.answered /\ r.status >= 200 /\ r.status < 300

\* C16: every sink call (chat, single webhook, batch webhook) returns a
\* boolean and never raises to its caller: true only when a request was made
\* and answered successfully, false on every failure, and false without a
\* request when the sink's URL is not set.
C16_SinkBoolean ==
    /\ \A c \in hist.sinks :
           /\ c.result.kind = "return"
           /\ c.result.value \in BOOLEAN
           /\ c.result.value => (c.requested /\ Succeeded(c.response))
           /\ ~Succeeded(c.response) => ~c.result.value
           /\ ~c.requested => (c.response = NoResponse /\ ~c.result.value)
    /\ \A x \in hist.skipped : x.stage \notin {"slack", "webhook"}
    /\ \A url \in BOOLEAN : \A r \in Responses :
           /\ sendNotification(url, r).kind = "return"
           /\ triggerWebhook(url, r).kind = "return"
           /\ triggerBatchWebhook(url, r).kind = "return"

\* C16 witness: one sink call returned true and another one, whose request
\* failed, returned false
C16_Witness ==
    \E a, b \in hist.sinks :
        /\ a.result = Returned(TRUE)
        /\ b.requested
        /\ ~Succeeded(b.response)
        /\ b.result = Returned(FALSE)

\* C17: a sink is invoked for a message only after the message was stored and
\* its category written: from the sink call on, whether the call fails or
\* not, the message's document is in the store with the category Interested.
C17_StoredBeforeNotify ==
    \A key \in hist.slack \cup hist.webhook :
        \E d \in store : /\ d.id = EmailId(Email(key[1]), Attributes(key[3]))
                         /\ d.category = Interested

\* C17 witness: the chat call of a message failed and the message is still
\* stored as Interested
C17_Witness ==
    \E c \in hist.sinks :
        /\ c.sink = "slack"
        /\ c.requested
        /\ c.result = Returned(FALSE)
        /\ \E d \in store : /\ d.id = EmailId(Email(c.key[1]), Attributes(c.key[3]))
                            /\ d.category = Interested

\* the processing of the message of this key has ended
Ended(key) == key \in hist.processed /\ ~\E t \in tasks : Key(t) = key

\* the new-email events published for the message of this key
EventsOf(key) == {e \in hist.emitted : e.key = key}

\* C18 as stated: every message the pipeline processed has its new-email
\* event published, whatever the store returned.
C18_EventAlways == \A key \in hist.processed : Ended(key) => EventsOf(key) # {}

\* C18 amended: a message whose processing ended without an error has exactly
\* one new-email event, carrying its id and the category written to the
\* store, whatever the category is and whatever the sinks returned; a message
\* skipped on an error of parsing or of the store has none.
C18_EventUnlessSkipped ==
    \A key \in hist.processed : Ended(key) =>
        IF \E x \in hist.skipped : x.key = key
        THEN EventsOf(key) = {}
        ELSE /\ Cardinality(EventsOf(key)) = 1
             /\ \A e \in EventsOf(key) :
                    /\ e.id = EmailId(Email(key[1]), Attributes(key[3]))
                    /\ e.category \in categories
                    /\ \E d \in store : d.id = e.id /\ d.category = e.category

\* C18 witness: the event of an Interested message was published although a
\* sink call for it failed
C18_Witness ==
    \E e \in hist.emitted : \E c \in hist.sinks :
        /\ e.category = Interested
        /\ c.key = e.key
        /\ c.result = Returned(FALSE)

\* the classification of the message of task t failed: no credential, a
\* provider error, or an answer outside the five
ClassificationFailed(t) ==
    \/ ~apiKey
    \/ ~t.outcome.ok
    \/ Trim(t.outcome.content) \notin categories

\* C19: a classification failure is never raised to the pipeline and never
\* prevents storage: no message is skipped at the classification, a message
\* whose classification failed is in the store and goes on with the category
\* Not Interested, and when its category update succeeds the store holds it
\* with Not Interested.
C19_ClassificationDegrades ==
    /\ [](/\ \A x \in hist.skipped : x.stage # "classifying"
          /\ \A t \in tasks :
                 (t.stage = "updating" /\ ClassificationFailed(t)) =>
                     /\ t.cat = NotInterested
                     /\ HasDoc(store, TaskId(t)))
    /\ [][\A t \in tasks :
              (/\ t.stage = "updating"
               /\ ClassificationFailed(t)
               /\ t \notin tasks'
               /\ hist'.skipped = hist.skipped) =>
                  \E d \in store' : d.id = TaskId(t) /\ d.category = NotInterested]_vars

\* C19 witness: the classifier call failed with an error, and the message is
\* stored and about to receive Not Interested
C19_Witness ==
    \E t \in tasks : /\ t.stage = "updating"
                     /\ apiKey
                     /\ t.outcome = Throws
                     /\ t.cat = NotInterested
                     /\ HasDoc(store, TaskId(t))

\* C20: without a classifier credential categorizeEmail returns Not
\* Interested whatever the classifier would answer, the classifier is never
\* called, and every message goes on, and is published, as Not Interested.
C20_NoKeyDefault ==
    /\ \A o \in AllAnswers \cup {NoOutcome} : categorizeEmail(FALSE, o) = NotInterested
    /\ ~apiKey =>
           /\ \A t \in tasks : /\ t.stage # "classifying"
                                /\ t.outcome = NoOutcome
                                /\ t.stage = "updating" => t.cat = NotInterested
           /\ \A e \in hist.emitted : e.category = NotInterested

\* C20 witness: without a credential a message's event was published with
\* Not Interested
C20_Witness ==
    /\ ~apiKey
    /\ \E e \in hist.emitted : e.category = NotInterested

\* ------------------------------------------------------------------- C21
\* the identifiers given so far: of the messages in the pipeline and of the
\* messages published
IdsSeen ==
    {[key |-> Key(t), id |-> TaskId(t)] : t \in tasks}
    \cup {[key |-> e.key, id |-> e.id] : e \in hist.emitted}

SameMessage(a, b) == a.key[1] = b.key[1] /\ a.key[3] = b.key[3]

C22_IdsDistinct ==
    \A a, b \in IdsSeen : ~SameMessage(a, b) => a.id # b.id

\* C22, in the store: a message that was stored keeps a document of its own
\* while another message is stored.
C22_OwnDocument ==
    Cardinality(store) >= Cardinality({<<e.key[1], e.key[3]>> : e \in hist.emitted})

\* ------------------------------------------------------------------- C23
\* the polling of session i has begun: its timer is set or a tick has run
Polling(i) ==
    \/ timer[i].active
    \/ \E k \in Batches \ {0} : batch[i][k].pc # "none"

\* the backfill of session i resolved with every matched message delivered
\* and its processing ended (stored or skipped)
BackfillComplete(i) ==
    /\ batch[i][0].promise = "resolved"
    /\ batch[i][0].undelivered = {}
    /\ batch[i][0].processedCount = Cardinality(batch[i][0].results)
    /\ InFlight(i, 0) = {}

\* C23: the polling of an account begins only after its backfill has fully
\* completed.
C23_TickAfterBackfill ==
    \A i \in Sessions : Polling(i) => BackfillComplete(i)

\* a tick runs after a backfill of two messages
C23_Witness ==
    \E i \in Sessions, k \in Batches \ {0} :
        /\ batch[i][k].pc # "none"
        /\ Cardinality(batch[i][0].results) = 2

\* ------------------------------------------------------------------- C24
\* nothing of the backfill of session i is left to happen: the fetch has
\* ended, no message is in the pipeline and no continuation is queued
BackfillQuiet(i) ==
    /\ batch[i][0].pc = "done"
    /\ InFlight(i, 0) = {}
    /\ micro = <<>>

\* C24: once every call of the backfill has returned, syncEmails has
\* resolved or rejected, also when the fetch delivered fewer messages than
\* the search matched.
C24_BackfillSettles ==
    \A i \in Sessions :
        BackfillQuiet(i) => batch[i][0].promise \in {"resolved", "rejected"}

\* ------------------------------------------------------------------- C25
\* the message with UID u
MessageOf(u) == CHOOSE m \in mailbox : m.uid = u

\* session i is connected and the service runs
Watching(i) ==
    /\ Alive
    /\ stopCalls = 0
    /\ sess[i].state = "authenticated"
    /\ MapHas(connections, Email(i))

\* C25: a message that arrived after the backfill is covered by the search
\* of every tick that builds its criteria after the arrival, so that a tick
\* stores and classifies it. (A search that leaves it out starts at a day
\* after the message's, and so does every later one.)
C25_ArrivalCovered ==
    \A i \in Sessions, k \in Batches \ {0}, u \in hist.arrived :
        ( /\ Watching(i)
          /\ MessageOf(u).owner = Email(i)
          /\ batch[i][k].searched
          /\ batch[i][k].at >= MessageOf(u).date )
        => MatchesSince(MessageOf(u).date, batch[i][k].since)

\* the usual case: a tick stored and classified the new message
C25_Stored ==
    \E i \in Sessions, u \in hist.arrived :
        \E d \in store : d.id = EmailId(Email(i), Attributes(u))
                          /\ d.category \in categories

\* ------------------------------------------------------------------- C26
\* what the classifier's answer for an email amounts to
ExpectedCategory(email) ==
    IF apiKey /\ email.outcome.ok /\ Trim(email.outcome.content) \in categories
    THEN Trim(email.outcome.content)
    ELSE NotInterested

\* C26: the results of a batch categorization follow the input: entry j has
\* the id of email j and the category of email j, Not Interested when the
\* classifier failed on it; the answered batch has as many entries as
\* emails, and no valid batch is aborted.
C26_BatchResults ==
    /\ Len(api.results) <= Len(api.emails)
    /\ \A j \in 1 .. Len(api.results) :
          /\ api.results[j].id = api.emails[j].id
          /\ api.results[j].category = ExpectedCategory(api.emails[j])
    /\ api.code = 200 => Len(api.results) = Len(api.emails)
    /\ BatchValid(api.emails) => api.code \in {0, 200}

\* a batch answered with a failed email before a classified one
C26_Witness ==
    /\ api.code = 200
    /\ apiKey
    /\ \E j, k \in 1 .. Len(api.results) :
          /\ j < k
          /\ ~api.emails[j].outcome.ok
          /\ api.results[j].category = NotInterested
          /\ api.results[k].category = Spam

\* ------------------------------------------------------------------- C27
\* the p-th entry of the log of a batch run with a key: call j, return j,
\* delay, for j = 1, 2, ...
LogEntry(p) ==
    LET j == (p - 1) \div 3 + 1
        r == (p - 1) % 3
    IN IF r = 0 THEN <<"call", j>>
       ELSE IF r = 1 THEN <<"return", j>>
       ELSE <<"delay", BatchDelayMs>>

\* C27: a list that is empty or longer than 50 is rejected before any
\* classifier call; the classifier is called for one email at a time in
\* input order, call j + 1 only after call j returned and the delay elapsed.
C27_OneAtATime ==
    /\ (api.pc # "idle" /\ ~(Len(api.emails) \in BatchMin .. BatchLimit))
         => api.code = 400 /\ api.log = <<>> /\ api.results = <<>>
    /\ apiKey => \A p \in 1 .. Len(api.log) : api.log[p] = LogEntry(p)
    /\ ~apiKey => \A p \in 1 .. Len(api.log) : api.log[p] = <<"delay", BatchDelayMs>>

\* a batch of 50 was answered after 50 classifier calls
C27_Witness ==
    /\ api.code = 200
    /\ apiKey
    /\ Len(api.emails) = BatchLimit
    /\ Len(api.log) = 3 * BatchLimit

\* ------------------------------------------------------------------- C28
\* C28: generateSuggestedReply always returns: the fixed text, with the
\* generator not called, when there is no key; the fixed error text when
\* the generator fails; and, when the lookup fails or the vector database
\* is not initialized, the generator's reply to the supplied training text.
C28_ReplyNeverRaises ==
    \A r \in api.replies :
        /\ r.result.kind = "return"
        /\ ~apiKey => r.result.value = NotAvailableText /\ r.prompt = <<>>
        /\ (apiKey /\ ~r.gen.ok) => r.result.value = ErrorText
        /\ (apiKey /\ r.gen.ok /\ (~r.ready \/ ~r.lookup.ok))
             => /\ r.result.value = Trim(r.gen.content)
                /\ r.prompt = r.trainingData

\* a reply was generated although the lookup failed
C28_Witness ==
    \E r \in api.replies :
        /\ apiKey
        /\ r.ready
        /\ ~r.lookup.ok
        /\ r.gen.ok
        /\ r.result = Returned(<<"Thanks">>)

\* ------------------------------------------------------------------- C29
\* account i is connecting or running its initial backfill
Syncing(i) ==
    /\ sess[i].state \in {"connecting", "authenticated"}
    /\ sess[i].promise = "pending"

\* C29: health requests are served while accounts are still connecting or
\* running their initial backfill.
C29_ServedWhileSyncing ==
    (Alive /\ \E i \in Sessions : Syncing(i)) => Listening

\* ------------------------------------------------------------------- C30
\* C30: every health request is answered with 200, status healthy, the
\* store's connected flag and the IMAP running flag.
C30_HealthAnswered ==
    \A h \in api.health : h.code = 200 /\ h.status = "healthy"

\* ------------------------------------------------------------------- C31
\* C31: a category-update request is answered 400 exactly when its category
\* is missing or not one of the five, and a request changes the store only
\* by giving a stored document one of the five categories.
C31_OnlyValidApplied ==
    /\ [](\A id \in RequestIds, body \in RequestBodies :
            /\ UpdateCategoryCode(store, id, body) = 400
                 <=> ~(body.set /\ body.val \in
                        {Interested, MeetingBooked, NotInterested, Spam, OutOfOffice})
            /\ UpdateCategoryCode(store, id, body) = 200 => HasDoc(store, id))
    /\ [][requests' # requests =>
            \/ store' = store
            \/ \E d \in store, c \in categories :
                  store' = (store \ {d}) \cup {[d EXCEPT !.category = c]}]_vars

\* without a classifier key every message is classified Not Interested: a
\* request has set a stored message's category to Spam
C31_Witness ==
    /\ ~apiKey
    /\ requests > 0
    /\ \E d \in store : d.category = Spam

\* ------------------------------------------------------------------- C32
\* C32: a session that is disconnected stays disconnected: no step of the
\* service connects it again or replaces it by a new session.
C32_NoReconnect ==
    [][\A i \in Sessions :
          sess[i].state = "disconnected"
            => /\ sess'[i].state = "disconnected"
               /\ sess'[i].openedAt = sess[i].openedAt]_vars

\* a session is disconnected and its interval timer has fired since
C32_Witness ==
    \E i \in Sessions :
        /\ sess[i].state = "disconnected"
        /\ timer[i].active
        /\ timer[i].fired > 0

\* ------------------------------------------------------------------- C33
\* EMAIL_ACCOUNTS names the same address twice
SameAccountTwice == Str(AddrA \o <<Comma>> \o AddrA)

InitDup ==
    InitWith({SameAccountTwice}, {TwoPasswords}, {FALSE}, {}, {Noon}, {TodayBox})

SpecDup == InitDup /\ [][NextStart]_vars

\* session i is authenticated and stop() has not called end() on it
Open(i) == sess[i].state = "authenticated" /\ ~sess[i].endCalled

\* C33: two open sessions of one address are the same session, and every
\* open session is the one the registry holds under its address.
C33_OneSessionPerAddress ==
    \A i \in Sessions :
        Open(i) =>
          /\ \A j \in Sessions : Open(j) /\ Email(j) = Email(i) => j = i
          /\ [email |-> Email(i), sess |-> i] \in connections

\* ------------------------------------------------------------------- C36
\* C36: when start() has rejected with an account's error, nothing of that
\* start() is left: no session is connecting or authenticated, no interval
\* timer is active, the registry is empty and the service is not marked
\* running.
C36_FailedStartCleansUp ==
    (startPc = "rejected" /\ startErr.kind = "account" /\ Idle) =>
        /\ \A i \in Sessions : sess[i].state \notin {"connecting", "authenticated"}
        /\ \A i \in Sessions : ~timer[i].active
        /\ connections = {}
        /\ ~isRunning

\* ------------------------------------------------------------------- C37
\* C37: once stop() has returned the service stays stopped: the flag is
\* false, the registry is empty, and the only sessions still connecting or
\* authenticated are those that were so when stop() was called.
C37_StaysStopped ==
    stopCalls > 0 =>
        /\ ~isRunning
        /\ connections = {}
        /\ \A i \in Sessions :
               sess[i].state \in {"connecting", "authenticated"} => i \in hist.stopOpen

\* ------------------------------------------------------------------- C38
\* C38: a stored document that has a category has one after every step: no
\* step removes the document or leaves it without a category.
C38_CategoryKept ==
    [][\A d \in store :
          d.category # NoCategory
            => \E e \in store' : e.id = d.id /\ e.category # NoCategory]_vars

\* ------------------------------------------------------------------- C35
\* batch k of session i has begun and is not over: a callback of openBox,
\* search or fetch is outstanding, or a message of it is being processed
InProgress(i, k) ==
    \/ batch[i][k].pc \in {"openBox", "search"}
    \/ batch[i][k].pc = "fetch" /\ batch[i][k].undelivered # {}
    \/ InFlight(i, k) # {}

\* C35: at most one sync batch of an account is in progress at a time: no
\* tick begins while the backfill or an earlier tick is in progress.
C35_OneBatchAtATime ==
    \A i \in Sessions : \A k1, k2 \in Batches :
        InProgress(i, k1) /\ InProgress(i, k2) => k1 = k2

\* the backfill itself is over before the first tick begins
C35_BackfillFirst ==
    \A i \in Sessions : \A k \in Batches \ {0} :
        batch[i][k].pc # "none" => ~InProgress(i, 0)

\* ------------------------------------------------ the fallback embedding
\* Texts are sequences of UTF-16 code units. A 32-bit integer is held as its
\* bit pattern in two 16-bit halves <<high, low>>, a JavaScript number as
\* sign and magnitude, so that no intermediate value leaves the range of the
\* checker's integers.
MaxTextLen == 5
EmbeddingSize == 1536
Limb == 2^16
Zero32 == <<0, 0>>

\* hash << 5
Shl5(h) == LET l == h[2] * 32 IN <<(h[1] * 32 + l \div Limb) % Limb, l % Limb>>

\* (a - b) and (a + char), reduced to 32 bits by `hash & hash`
Sub32(a, b) ==
    LET borrow == IF a[2] < b[2] THEN 1 ELSE 0
    IN <<(a[1] - b[1] - borrow + 2 * Limb) % Limb, (a[2] - b[2] + Limb) % Limb>>
Add32(a, char) ==
    LET l == a[2] + char IN <<(a[1] + l \div Limb) % Limb, l % Limb>>

\* one iteration of simpleHash's loop
HashStep(h, char) == Add32(Sub32(Shl5(h), h), char)

\* the loop of simpleHash over str, from position i with hash h
RECURSIVE HashLoop(_, _, _)
HashLoop(str, i, h) ==
    IF i > Len(str) THEN h ELSE HashLoop(str, i + 1, HashStep(h, str[i]))

\* the number a 32-bit pattern stands for (two's complement)
Int32Value(h) ==
    IF h[1] < Limb \div 2 THEN [neg |-> FALSE, hi |-> h[1], lo |-> h[2]]
    ELSE IF h[2] = 0 THEN [neg |-> TRUE, hi |-> Limb - h[1], lo |-> 0]
    ELSE [neg |-> TRUE, hi |-> Limb - 1 - h[1], lo |-> Limb - h[2]]

\* Math.abs
MathAbs(n) == [n EXCEPT !.neg = FALSE]

\* a simpleHash that returns the hash as it is
simpleHashSigned(str) == Int32Value(HashLoop(str, 1, Zero32))

simpleHash(str) == MathAbs(Int32Value(HashLoop(str, 1, Zero32)))

\* n % 1536: the remainder has the sign of n
BucketIndex(n) ==
    LET r == ((n.hi % EmbeddingSize) * (Limb % EmbeddingSize) + n.lo) % EmbeddingSize
    IN IF n.neg THEN 0 - r ELSE r

\* String.prototype.toLowerCase on the letters A..Z
LowerCode(c) == IF c \in 65 .. 90 THEN c + 32 ELSE c
ToLowerCase(text) == [j \in 1 .. Len(text) |-> LowerCode(text[j])]

\* split(/\s+/): the pieces between maximal runs of white space; a text that
\* begins or ends with white space gives an empty first or last piece
IsSpace(c) == c \in {9, 10, 13, 32}
RECURSIVE SplitSpaceFrom(_, _, _, _)
SplitSpaceFrom(text, j, done, cur) ==
    IF j > Len(text) THEN Append(done, cur)
    ELSE IF IsSpace(text[j])
         THEN IF j > 1 /\ IsSpace(text[j - 1])
              THEN SplitSpaceFrom(text, j + 1, done, cur)
              ELSE SplitSpaceFrom(text, j + 1, Append(done, cur), <<>>)
         ELSE SplitSpaceFrom(text, j + 1, done, Append(cur, text[j]))
SplitSpace(text) == SplitSpaceFrom(text, 1, <<>>, <<>>)

\* generateSimpleEmbedding: the words, the hash and the bucket of each word,
\* the counts of the buckets that were hit (every other entry of the 1536 is
\* 0) and the squared magnitude the counts are divided by
RECURSIVE SumOver(_, _)
SumOver(f, S) ==
    IF S = {} THEN 0
    ELSE LET b == CHOOSE x \in S : TRUE IN f[b] * f[b] + SumOver(f, S \ {b})
SumSquares(counts) == SumOver(counts, DOMAIN counts)

generateSimpleEmbedding(text) ==
    LET words == SplitSpace(ToLowerCase(text))
        hashes == [j \in 1 .. Len(words) |-> simpleHash(words[j])]
        index == [j \in 1 .. Len(words) |-> BucketIndex(hashes[j])]
        hit == {index[j] : j \in 1 .. Len(words)}
        counts == [b \in hit |-> Cardinality({j \in 1 .. Len(words) : index[j] = b})]
    IN [words |-> words, hashes |-> hashes, index |-> index, counts |-> counts,
        squared |-> SumSquares(counts)]

\* the texts of up to MaxTextLen code units over a blank, a capital, a small
\* letter and the largest code unit, and "xfjfxtf", whose hash is -2^31
Codes == {32, 65, 122, 65535}
RECURSIVE TextsOfLen(_)
TextsOfLen(n) ==
    IF n = 0 THEN {<<>>}
    ELSE {Append(t, c) : t \in TextsOfLen(n - 1), c \in Codes}
MinHashWord == <<120, 102, 106, 102, 120, 116, 102>>
HashTexts ==
    UNION {TextsOfLen(n) : n \in 0 .. MaxTextLen} \cup {MinHashWord}

InitHash ==
    /\ InitCore({OneAccount}, {OnePassword}, {FALSE}, {<<FALSE, FALSE>>}, {},
                {Noon}, {TodayBox})
    /\ api \in {[NoApi EXCEPT !.text = t] : t \in HashTexts}

\* generateSimpleEmbedding(api.text) is called when a snippet is stored
\* ("store") or a query is looked up ("query")
SimpleEmbedding(use) ==
    /\ Idle
    /\ ~\E e \in api.embedded : e.use = use
    /\ api' = [api EXCEPT !.embedded = @ \cup
                 {[use |-> use, embedding |-> generateSimpleEmbedding(api.text)]}]
    /\ UNCHANGED <<config, now, mailbox, isRunning, connections, startPc, startI,
                   startErr, micro, sess, batch, timer, tasks, store, crashed,
                   stopCalls, requests, elapsed, hist>>

NextHash == \E use \in {"store", "query"} : SimpleEmbedding(use)

SpecHash == InitHash /\ [][NextHash]_vars

\* ------------------------------------------------------------------- C40
\* 31 * h + char over the characters of str from position i, modulo m, in
\* plain integers (m at most 2^16)
RECURSIVE Horner(_, _, _, _)
Horner(str, i, h, m) ==
    IF i > Len(str) THEN h ELSE Horner(str, i + 1, (31 * h + str[i]) % m, m)

\* C40: every hash generateSimpleEmbedding gets from simpleHash is a
\* non-negative number of magnitude at most 2^31 that agrees with the
\* polynomial 31*h + char modulo 2^32 (its low 16 bits, up to the sign
\* Math.abs removed), every bucket index lies in 0 .. 1535, every word is
\* counted in one bucket, and two calls for one text give the same counts.
C40_HashBuckets ==
    /\ \A e \in api.embedded :
         LET g == e.embedding IN
         /\ Len(g.words) >= 1
         /\ \A j \in 1 .. Len(g.words) :
              /\ ~g.hashes[j].neg
              /\ g.hashes[j].hi \in 0 .. Limb \div 2
              /\ g.hashes[j].lo \in 0 .. Limb - 1
              /\ g.hashes[j].hi = Limb \div 2 => g.hashes[j].lo = 0
              /\ LET r == Horner(g.words[j], 1, 0, Limb)
                 IN g.hashes[j].lo \in {r, (Limb - r) % Limb}
              /\ g.index[j] \in 0 .. EmbeddingSize - 1
         /\ \A b \in DOMAIN g.counts : b \in 0 .. EmbeddingSize - 1 /\ g.counts[b] >= 1
         /\ g.squared >= 1
    /\ \A e, f \in api.embedded : e.embedding.counts = f.embedding.counts

\* the word whose hash is -2^31 was embedded at store time and at query
\* time: Math.abs gives 2^31, and 2^31 % 1536 = 512
C40_Witness ==
    /\ api.text = MinHashWord
    /\ Cardinality(api.embedded) = 2
    /\ \A e \in api.embedded :
         /\ e.embedding.hashes[1] = [neg |-> FALSE, hi |-> Limb \div 2, lo |-> 0]
         /\ e.embedding.counts = (512 :> 1)

\* a text of two words that fall into one bucket, one of them in capitals
C40_SameBucket ==
    \E e \in api.embedded :
        /\ Len(e.embedding.words) = 2
        /\ e.embedding.words[1] # <<>>
        /\ \E b \in DOMAIN e.embedding.counts : e.embedding.counts[b] = 2

\* ------------------------------------------------------ the vector database
\* generateEmbedding: the provider's vector for the text when the request
\* to the embeddings endpoint succeeds, else (request fails, or the response
\* is not ok) the fallback embedding of the text
generateEmbedding(text, ok) ==
    IF ok THEN [space |-> "provider", vector |-> <<"text-embedding-ada-002", text>>]
    ELSE [space |-> "fallback", vector |-> generateSimpleEmbedding(text).counts]

\* VectorDatabaseService.storeTrainingData: nothing when the database is not
\* ready; else embed the content and store the point, which can fail
StoreTrainingData(content, ok, stored) ==
    /\ Idle
    /\ Cardinality(api.vectors) < MaxRequests
    /\ api' = IF api.qdrant /\ stored
              THEN [api EXCEPT !.vectors = @ \cup
                      {[content |-> content, embedding |-> generateEmbedding(content, ok)]}]
              ELSE api
    /\ UNCHANGED <<config, now, mailbox, isRunning, connections, startPc, startI,
                   startErr, micro, sess, batch, timer, tasks, store, crashed,
                   stopCalls, requests, elapsed, hist>>

\* VectorDatabaseService.searchSimilarContent: nothing when the database is
\* not ready; else embed the query and search the stored points with it
SearchSimilarContent(query, ok) ==
    /\ Idle
    /\ Cardinality(api.queries) < MaxRequests
    /\ api' = IF api.qdrant
              THEN [api EXCEPT !.queries = @ \cup
                      {[query |-> query, embedding |-> generateEmbedding(query, ok),
                        searched |-> api.vectors]}]
              ELSE api
    /\ UNCHANGED <<config, now, mailbox, isRunning, connections, startPc, startI,
                   startErr, micro, sess, batch, timer, tasks, store, crashed,
                   stopCalls, requests, elapsed, hist>>

\* snippets and queries
VectorTexts ==
    {<<>>, <<122>>, <<65>>, <<65, 32, 122>>, <<122, 32, 122>>, MinHashWord}

\* the vector database initialized or not
InitVector ==
    /\ InitCore({OneAccount}, {OnePassword}, {FALSE}, {<<FALSE, FALSE>>}, {},
                {Noon}, {TodayBox})
    /\ api \in {[NoApi EXCEPT !.qdrant = q] : q \in BOOLEAN}

NextVector ==
    \/ \E content \in VectorTexts, ok \in BOOLEAN, stored \in BOOLEAN :
          StoreTrainingData(content, ok, stored)
    \/ \E query \in VectorTexts, ok \in BOOLEAN : SearchSimilarContent(query, ok)

SpecVector == InitVector /\ [][NextVector]_vars

\* ------------------------------------------------------------------- C34
\* C34: the vector of every query and the vectors of the points it is
\* compared with come from the same embedding function.
C34_OneVectorSpace ==
    \A q \in api.queries : \A v \in q.searched :
        q.embedding.space = v.embedding.space

\* ------------------------------------------------- ReachinboxApp.start()
\* the steps of elasticsearchService.initialize() that can throw
StoreInitSteps == {"ping", "createIndex", "setupMappings"}

\* an application start that goes on when the store's initialization failed
InitializeStoreIgnored(fails) ==
    /\ Idle
    /\ api.app = "new"
    /\ api' = [api EXCEPT !.app = "store",
                          !.storeInit = IF fails = "none" THEN "ok" ELSE "failed"]
    /\ UNCHANGED <<config, now, mailbox, isRunning, connections, startPc, startI,
                   startErr, micro, sess, batch, timer, tasks, store, crashed,
                   stopCalls, requests, elapsed, hist>>

\* `await this.elasticsearchService.initialize()`: initialize() rethrows the
\* error of any of its steps, and the catch block of start() logs it and
\* calls process.exit(1)
InitializeStore(fails) ==
    /\ Idle
    /\ api.app = "new"
    /\ IF fails = "none"
       THEN /\ api' = [api EXCEPT !.app = "store", !.storeInit = "ok"]
            /\ UNCHANGED crashed
       ELSE /\ api' = [api EXCEPT !.app = "exited", !.storeInit = "failed"]
            /\ crashed' = "process.exit(1)"
    /\ UNCHANGED <<config, now, mailbox, isRunning, connections, startPc, startI,
                   startErr, micro, sess, batch, timer, tasks, store,
                   stopCalls, requests, elapsed, hist>>

\* `await this.aiCategorizationService.initialize()`: the vector database's
\* initialize() returns true, or false from its catch blocks; it never throws
InitializeAI(ok) ==
    /\ Idle
    /\ api.app = "store"
    /\ api' = [api EXCEPT !.app = "ai", !.qdrant = ok]
    /\ UNCHANGED <<config, now, mailbox, isRunning, connections, startPc, startI,
                   startErr, micro, sess, batch, timer, tasks, store, crashed,
                   stopCalls, requests, elapsed, hist>>

\* the default snippets (two of the five)
DefaultTrainingData == {<<122>>, <<65, 32, 122>>}

\* `await this.aiCategorizationService.initializeDefaultTrainingData()`:
\* storeTrainingData for each default snippet; each returns false when the
\* vector database is not ready or the point cannot be stored. kept: the
\* snippets whose point was stored; ok: the embeddings endpoint answered
InitializeDefaultTrainingData(kept, ok) ==
    /\ Idle
    /\ api.app = "ai"
    /\ api' = [api EXCEPT
                 !.app = "ingest",
                 !.vectors = IF api.qdrant
                             THEN @ \cup {[content |-> c,
                                           embedding |-> generateEmbedding(c, ok)] :
                                          c \in kept}
                             ELSE @]
    /\ UNCHANGED <<config, now, mailbox, isRunning, connections, startPc, startI,
                   startErr, micro, sess, batch, timer, tasks, store, crashed,
                   stopCalls, requests, elapsed, hist>>

AppStart ==
    \/ \E fails \in {"none"} \cup StoreInitSteps : InitializeStore(fails)
    \/ \E ok \in BOOLEAN : InitializeAI(ok)
    \/ \E kept \in SUBSET DefaultTrainingData, ok \in BOOLEAN :
          InitializeDefaultTrainingData(kept, ok)

\* the application as constructed, with one account
InitApp ==
    /\ InitCore({OneAccount}, {OnePassword}, {FALSE}, {<<FALSE, FALSE>>}, {},
                {Noon}, {TodayBox})
    /\ api = [NoApi EXCEPT !.app = "new", !.storeInit = "none", !.qdrant = FALSE]

NextApp == AppStart \/ Lifecycle \/ Sync \/ Pipeline

SpecApp == InitApp /\ [][NextApp]_vars

\* ------------------------------------------------------------------- C39
\* imapSyncService.start() has been called or a session exists
Ingesting == startPc # "idle" \/ \E i \in Sessions : sess[i].state # "none"

\* C39: ingestion begins only after the store was initialized; when the
\* store's initialization failed the process has exited and no session was
\* opened; nothing else ends the start-up, and with the vector database not
\* initialized imapSyncService.start() is still called.
C39_IngestAfterStore ==
    /\ Ingesting => api.storeInit = "ok"
    /\ api.storeInit = "failed" =>
          /\ api.app = "exited"
          /\ crashed = "process.exit(1)"
          /\ ~Ingesting
    /\ api.app = "exited" => api.storeInit = "failed"
    /\ (api.app = "ingest" /\ startPc = "idle" /\ Idle) => ENABLED Start

\* the vector database could not be initialized and a message was ingested
\* and stored
C39_Witness ==
    /\ ~api.qdrant
    /\ api.storeInit = "ok"
    /\ store # {}

\* the store's initialization failed and the process exited
C39_Exited == api.app = "exited" /\ ~Ingesting
====
